---- MODULE Spec2Model ----
(***************************************************************************)
(* Model of the limit order matching engine: the lock-free Order entity    *)
(* (domain/order.rs), the order book side (domain/order_book.rs), the five *)
(* matching policies (engine/*.rs) and the MatchingEngine facade           *)
(* (engine/matching_engine.rs).                                            *)
(*                                                                         *)
(* Quantities and prices are raw scaled integers, as in FixedDecimal;      *)
(* QtyOne is the raw value of the quantity 1.                              *)
(***************************************************************************)
EXTENDS Integers, Sequences, FiniteSets, TLC

\* ------------------------------------------------------------------------
\* Bounds of the model
\* ------------------------------------------------------------------------
MaxOrders == 3
MaxPrice == 2
MaxQty == 2
MaxFillCalls == 3
MaxAnyOrders == 2
MaxSubmitCalls == 2
MaxLevelOrders == 3
MaxDeepOrders == 4
MaxDeepQty == 3
MaxSimdLen == 9
MaxRaceMakers == 2

\* ------------------------------------------------------------------------
\* Program constants (scaled down)
\* ------------------------------------------------------------------------
\* FixedDecimal::SCALE, the raw value of 1: quantities a caller submits are
\* multiples of it, allocations may be finer.
QtyOne == 4
\* Decimal::MAX, the price a Buy taker without price is given in prices_cross
DecimalMAX == 1000000
\* number of fractional digits kept by a Decimal division, as a power of ten
DecimalScale == 10000

\* FixedDecimal<DECIMALS> over an i16 in place of the i64: DECIMALS, SCALE =
\* 10^DECIMALS, and the raw values of FixedDecimal::MAX and FixedDecimal::MIN
DECIMALS == 2
SCALE == 100
I64_MAX == 32767
I64_MIN == -32768

None == <<>>
Some(x) == <<x>>
Unwrap(opt) == opt[1]

Min(a, b) == IF a <= b THEN a ELSE b

RECURSIVE Reverse(_)
Reverse(s) == IF s = <<>> THEN <<>> ELSE Append(Reverse(Tail(s)), Head(s))

RECURSIVE SumQty(_)
\* sum of the qty field of a sequence of records
SumQty(s) == IF s = <<>> THEN 0 ELSE Head(s).qty + SumQty(Tail(s))

SetMax(S) == CHOOSE x \in S : \A y \in S : y <= x
SetMin(S) == CHOOSE x \in S : \A y \in S : x <= y

\* index of the first element equal to x in s, 0 when absent
RECURSIVE IndexOf(_, _)
IndexOf(s, x) ==
    IF s = <<>> THEN 0
    ELSE IF Head(s) = x THEN 1
    ELSE LET r == IndexOf(Tail(s), x) IN IF r = 0 THEN 0 ELSE r + 1

Sides == {"Buy", "Sell"}
TerminalStates == {"Filled", "Cancelled", "Rejected", "Expired"}

VARIABLES
    algorithm,          \* MatchingEngine.algorithm: the policy and its parameters
    orders,             \* the Order objects handed to the engine, by order id
    bids, asks,         \* MatchingEngine.bids / asks: price key -> level
    order_index,        \* MatchingEngine.order_index (ids that can be cancelled)
    sequence_counter,   \* MatchingEngine.sequence_counter
    pc,                 \* position of the call in flight
    op,                 \* the call in flight: <<"submit", id>> or <<"cancel", id>>
    taker,              \* incoming_order of match_order
    best_level,         \* the level match_order holds
    allocations,        \* allocations still to execute in the level step
    remaining_to_fill,  \* taker remaining at the start of the level step
    trades,             \* trades of the call in flight
    events,             \* event batch of the call in flight
    result,             \* how the call in flight ended
    filled_before,      \* filled quantities when the call in flight started
    fill_calls,         \* concurrent try_fill / try_cancel calls on orders[1]
    submit_calls,       \* concurrent submit_order calls, one frame per thread
    detached_levels,    \* levels removed from a ladder while a thread still holds them
    args,               \* arguments of the pure function under check
    ret                 \* what the pure function returned

vars == <<algorithm, args, ret, orders, bids, asks, order_index, sequence_counter, pc, op,
          taker, best_level, allocations, remaining_to_fill, trades, events,
          result, filled_before, fill_calls, submit_calls, detached_levels>>

\* ------------------------------------------------------------------------
\* domain/order.rs
\* ------------------------------------------------------------------------
\* Order::new
NewOrder(inp) ==
    [side |-> inp.side, order_type |-> inp.order_type, price |-> inp.price,
     quantity |-> inp.quantity, time_in_force |-> inp.time_in_force,
     user_id |-> inp.user_id,
     filled_quantity |-> 0, remaining_quantity |-> inp.quantity,
     state |-> "Pending", sequence_number |-> 0]

is_terminal(state) == state \in {"Filled", "Cancelled", "Rejected", "Expired"}

can_be_cancelled(state) == state \in {"Accepted", "PartiallyFilled"}

is_limit_order(o) == o.order_type = "Limit"

\* Order::try_fill when no other thread touches the order: whether it succeeds
try_fill_ok(o, quantity) == ~(o.remaining_quantity < quantity)

\* state stored by try_fill after a successful CAS
FillState(new_remaining) == IF new_remaining = 0 THEN "Filled" ELSE "PartiallyFilled"

\* a fill that lowers the remaining quantity without crediting the filled one
try_fill_no_credit(o, quantity) ==
    IF try_fill_ok(o, quantity)
    THEN [o EXCEPT !.remaining_quantity = @ - quantity,
                   !.state = FillState(o.remaining_quantity - quantity)]
    ELSE o

\* Order::try_fill when no other thread touches the order: the order afterwards
try_fill(o, quantity) ==
    IF try_fill_ok(o, quantity)
    THEN [o EXCEPT !.remaining_quantity = @ - quantity,
                   !.filled_quantity = @ + quantity,
                   !.state = FillState(o.remaining_quantity - quantity)]
    ELSE o

\* Order::try_cancel when no other thread touches the order
try_cancel_ok(o) == can_be_cancelled(o.state)

try_cancel(o) == IF try_cancel_ok(o) THEN [o EXCEPT !.state = "Cancelled"] ELSE o

\* ------------------------------------------------------------------------
\* domain/order_book.rs
\* ------------------------------------------------------------------------
\* OrderBookLevel::new
NewLevel(price) == [price |-> price, orders |-> <<>>, total_quantity |-> 0]

\* a push that leaves the level's aggregate alone
LevelPushOnly(level, id, o) ==
    [level EXCEPT !.orders = Append(@, id)]

\* OrderBookLevel::add_order
LevelAddOrder(level, id, o) ==
    [level EXCEPT !.total_quantity = @ + o.remaining_quantity,
                  !.orders = Append(@, id)]

\* a trade that leaves the level's aggregate alone
subtract_nothing(level, quantity) == level

\* OrderBookLevel::subtract_quantity
subtract_quantity(level, quantity) ==
    [level EXCEPT !.total_quantity = @ - quantity]

\* OrderBookSide::add_order (the order has a price)
SideAddOrder(levels, id, o) ==
    LET price_key == Unwrap(o.price)
        withLevel == IF price_key \in DOMAIN levels THEN levels
                     ELSE levels @@ (price_key :> NewLevel(price_key))
    IN [withLevel EXCEPT ![price_key] = LevelAddOrder(@, id, o)]

\* the price of the level farthest from the spread
worst_price(side, levels) ==
    IF DOMAIN levels = {} THEN None
    ELSE IF side = "Buy" THEN Some(SetMin(DOMAIN levels))
    ELSE Some(SetMax(DOMAIN levels))

\* OrderBookSide::best_price / best_level: the key of the best level
best_price(side, levels) ==
    IF DOMAIN levels = {} THEN None
    ELSE IF side = "Buy" THEN Some(SetMax(DOMAIN levels))
    ELSE Some(SetMin(DOMAIN levels))

\* OrderBookSide::remove_empty_levels
\* a sweep that leaves the empty levels in the book
keep_empty_levels(levels) == levels

remove_empty_levels(levels) ==
    LET keep == {k \in DOMAIN levels : levels[k].orders # <<>>}
    IN [k \in keep |-> levels[k]]

\* ------------------------------------------------------------------------
\* interfaces/matching_algorithm.rs
\* ------------------------------------------------------------------------
\* the crossing test with the two sides exchanged
prices_cross_reversed(incoming, book_price) ==
    LET incoming_price == IF incoming.price # None THEN Unwrap(incoming.price)
                          ELSE IF incoming.side = "Buy" THEN DecimalMAX ELSE 0
    IN IF incoming.side = "Buy" THEN incoming_price <= book_price
       ELSE incoming_price >= book_price

\* MatchingAlgorithm::prices_cross
prices_cross(incoming, book_price) ==
    LET incoming_price == IF incoming.price # None THEN Unwrap(incoming.price)
                          ELSE IF incoming.side = "Buy" THEN DecimalMAX ELSE 0
    IN IF incoming.side = "Buy" THEN incoming_price >= book_price
       ELSE incoming_price <= book_price

\* SimdPriceMatcher::find_crossing_prices: the indices of the crossing prices
find_crossing_prices(side, price, opposite_prices) ==
    {i \in 1..Len(opposite_prices) :
        IF side = "Buy" THEN price >= opposite_prices[i]
        ELSE price <= opposite_prices[i]}

\* the keys of a side in ascending order (SkipMap iteration order)
RECURSIVE SortedKeys(_)
SortedKeys(S) == IF S = {} THEN <<>> ELSE <<SetMin(S)>> \o SortedKeys(S \ {SetMin(S)})

OppositeSide(side) == IF side = "Buy" THEN "Sell" ELSE "Buy"

\* the ladder of the order's own side
OwnLevels(side) == IF side = "Buy" THEN bids ELSE asks

\* the ladder a taker of the given side is matched against
OppositeLevels(side) == IF side = "Buy" THEN asks ELSE bids

\* ------------------------------------------------------------------------
\* Allocation arithmetic
\* ------------------------------------------------------------------------
RECURSIVE SumRemaining(_, _)
\* sum of the remaining quantities of the orders ids, read from ords
SumRemaining(ords, ids) ==
    IF ids = <<>> THEN 0
    ELSE ords[Head(ids)].remaining_quantity + SumRemaining(ords, Tail(ids))

\* a share rounded to the nearest raw unit
ProRataShareRounded(order_raw, fill_raw, eligible_raw) ==
    (2 * order_raw * fill_raw + eligible_raw) \div (2 * eligible_raw)

\* pro_rata.rs: (order_raw as i128 * fill_raw as i128) / eligible_raw as i128
ProRataShare(order_raw, fill_raw, eligible_raw) ==
    (order_raw * fill_raw) \div eligible_raw

\* Decimal division a / b, kept to DecimalScale fractional digits and rounded
\* on the last one; the result is scaled by DecimalScale
DecimalDiv(a, b) == (2 * a * DecimalScale + b) \div (2 * b)

\* Decimal::floor of a value scaled by DecimalScale, as a raw quantity
DecimalFloor(scaled) == (scaled \div (DecimalScale * QtyOne)) * QtyOne

\* ((order_quantity / total) * quantity).floor() of the Decimal policies
DecimalShare(order_quantity, total, quantity) ==
    DecimalFloor(DecimalDiv(order_quantity, total) * quantity)

\* the rounding remainder is dropped
DropRemainder(allocs, i, remainder) == allocs

\* allocations[i].1 += remainder, guarded as the callers guard it
AddRemainder(allocs, i, remainder) ==
    IF remainder > 0 /\ Len(allocs) >= i
    THEN [allocs EXCEPT ![i].qty = @ + remainder]
    ELSE allocs

\* ------------------------------------------------------------------------
\* engine/pro_rata.rs
\* ------------------------------------------------------------------------
\* ProRata::calculate_allocation: the level's queue afterwards and the
\* allocation list
ProRata_calculate_allocation(ords, alg, queue, quantity_to_fill) ==
    LET Eligible(id) == ords[id].remaining_quantity >= alg.minimum_quantity
        Ineligible(id) == ~Eligible(id)
        eligible_orders == SelectSeq(queue, Eligible)
        ineligible_orders == SelectSeq(queue, Ineligible)
        eligible_quantity == SumRemaining(ords, eligible_orders)
        floors == [i \in 1..Len(eligible_orders) |->
                     [order_id |-> eligible_orders[i],
                      qty |-> ProRataShare(ords[eligible_orders[i]].remaining_quantity,
                                           quantity_to_fill, eligible_quantity)]]
        remainder == quantity_to_fill - SumQty(floors)
    IN IF eligible_quantity = 0
       THEN [orders |-> ineligible_orders, allocations |-> <<>>]
       ELSE [orders |-> ineligible_orders \o eligible_orders,
             allocations |-> AddRemainder(floors, 1, remainder)]

\* ------------------------------------------------------------------------
\* engine/pro_rata_tob_fifo.rs
\* ------------------------------------------------------------------------
\* an allocation without the FIFO step for the first order
TobFifo_without_fifo(ords, alg, queue, quantity_to_fill) ==
    ProRata_calculate_allocation(ords, alg, queue, quantity_to_fill)

\* ProRataTobFifo::calculate_allocation
TobFifo_calculate_allocation(ords, alg, queue, quantity_to_fill) ==
    IF queue = <<>> THEN [orders |-> queue, allocations |-> <<>>]
    ELSE
    LET all_orders == queue
        first_order == all_orders[1]
        first_order_qty == ords[first_order].remaining_quantity
        fifo == IF first_order_qty > 0
                THEN <<[order_id |-> first_order,
                        qty |-> Min(quantity_to_fill, first_order_qty)]>>
                ELSE <<>>
        remaining_to_allocate == quantity_to_fill - SumQty(fifo)
        Eligible(id) == ords[id].remaining_quantity >= alg.minimum_quantity
        eligible_orders == SelectSeq(Tail(all_orders), Eligible)
        eligible_quantity == SumRemaining(ords, eligible_orders)
        shares == [i \in 1..Len(eligible_orders) |->
                     [order_id |-> eligible_orders[i],
                      qty |-> DecimalShare(ords[eligible_orders[i]].remaining_quantity,
                                           eligible_quantity, remaining_to_allocate)]]
        remainder == remaining_to_allocate - SumQty(shares)
    IN [orders |-> Reverse(all_orders),
        allocations |->
            IF remaining_to_allocate <= 0 \/ Len(all_orders) = 1 THEN fifo
            ELSE IF eligible_quantity = 0 THEN fifo
            ELSE AddRemainder(fifo \o shares, 2, remainder)]

\* ------------------------------------------------------------------------
\* engine/lmm_priority.rs
\* ------------------------------------------------------------------------
\* LmmPriority::is_lmm
is_lmm(alg, account_id) == account_id \in alg.lmm_accounts

\* quantity_to_fill * self.lmm_allocation_pct
LmmAllocationQty(alg, quantity_to_fill) ==
    (quantity_to_fill * alg.lmm_allocation_pct.num) \div alg.lmm_allocation_pct.den

RECURSIVE MergeAllocations(_, _)
\* the merge loop at the end of LmmPriority::calculate_allocation
MergeAllocations(allocs, prorata_allocs) ==
    IF prorata_allocs = <<>> THEN allocs
    ELSE LET p == Head(prorata_allocs)
             ids == [i \in 1..Len(allocs) |-> allocs[i].order_id]
             k == IndexOf(ids, p.order_id)
         IN MergeAllocations(
                IF k > 0 THEN [allocs EXCEPT ![k].qty = @ + p.qty]
                ELSE Append(allocs, p),
                Tail(prorata_allocs))

\* LmmPriority::calculate_allocation
Lmm_calculate_allocation(ords, alg, queue, quantity_to_fill) ==
    IF queue = <<>> THEN [orders |-> queue, allocations |-> <<>>]
    ELSE
    LET all_orders == queue
        Eligible(id) == ords[id].remaining_quantity >= alg.minimum_quantity
        EligibleLmm(id) == Eligible(id) /\ is_lmm(alg, ords[id].user_id)
        all_eligible_orders == SelectSeq(all_orders, Eligible)
        lmm_orders == SelectSeq(all_orders, EligibleLmm)
        total_eligible_quantity == SumRemaining(ords, all_eligible_orders)
        lmm_total_quantity == SumRemaining(ords, lmm_orders)
        lmm_allocation_qty == LmmAllocationQty(alg, quantity_to_fill)
        lmm_phase == lmm_total_quantity > 0 /\ lmm_allocation_qty > 0
        lmm_floors == [i \in 1..Len(lmm_orders) |->
                         [order_id |-> lmm_orders[i],
                          qty |-> DecimalShare(ords[lmm_orders[i]].remaining_quantity,
                                               lmm_total_quantity, lmm_allocation_qty)]]
        lmm_remainder == lmm_allocation_qty - SumQty(lmm_floors)
        step1 == IF lmm_phase THEN AddRemainder(lmm_floors, 1, lmm_remainder) ELSE <<>>
        lmm_allocated == SumQty(step1)
        remaining_qty == quantity_to_fill - lmm_allocated
        prorata_floors == [i \in 1..Len(all_eligible_orders) |->
                             [order_id |-> all_eligible_orders[i],
                              qty |-> DecimalShare(
                                        ords[all_eligible_orders[i]].remaining_quantity,
                                        total_eligible_quantity, remaining_qty)]]
        prorata_remainder == remaining_qty - SumQty(prorata_floors)
        prorata_allocs == AddRemainder(prorata_floors, 1, prorata_remainder)
    IN [orders |-> Reverse(all_orders),
        allocations |->
            IF total_eligible_quantity = 0 THEN <<>>
            ELSE IF remaining_qty > 0 /\ total_eligible_quantity > 0
                 THEN MergeAllocations(step1, prorata_allocs)
                 ELSE step1]

\* ------------------------------------------------------------------------
\* engine/threshold_pro_rata.rs
\* ------------------------------------------------------------------------
RECURSIVE SmallAllocations(_, _, _)
\* Step 1 of ThresholdProRata::calculate_allocation: FIFO over the small orders
SmallAllocations(ords, small_orders, remaining_to_allocate) ==
    IF small_orders = <<>> \/ remaining_to_allocate <= 0 THEN <<>>
    ELSE LET allocation == Min(remaining_to_allocate,
                               ords[Head(small_orders)].remaining_quantity)
         IN <<[order_id |-> Head(small_orders), qty |-> allocation]>>
            \o SmallAllocations(ords, Tail(small_orders),
                                remaining_to_allocate - allocation)

\* ThresholdProRata::calculate_allocation
Threshold_calculate_allocation(ords, alg, queue, quantity_to_fill) ==
    IF queue = <<>> THEN [orders |-> queue, allocations |-> <<>>]
    ELSE
    LET all_orders == queue
        Small(id) == ords[id].remaining_quantity < alg.threshold
        Large(id) == /\ ~Small(id)
                     /\ ords[id].remaining_quantity >= alg.minimum_quantity
        small_orders == SelectSeq(all_orders, Small)
        large_orders == SelectSeq(all_orders, Large)
        large_total_quantity == SumRemaining(ords, large_orders)
        small_allocs == SmallAllocations(ords, small_orders, quantity_to_fill)
        remaining_to_allocate == quantity_to_fill - SumQty(small_allocs)
        shares == [i \in 1..Len(large_orders) |->
                     [order_id |-> large_orders[i],
                      qty |-> DecimalShare(ords[large_orders[i]].remaining_quantity,
                                           large_total_quantity, remaining_to_allocate)]]
        remainder == remaining_to_allocate - SumQty(shares)
    IN [orders |-> Reverse(all_orders),
        allocations |->
            IF remaining_to_allocate > 0 /\ large_total_quantity > 0
            THEN AddRemainder(small_allocs \o shares, Len(small_allocs) + 1, remainder)
            ELSE small_allocs]

\* calculate_allocation of the configured policy
calculate_allocation(ords, alg, queue, quantity_to_fill) ==
    CASE alg.name = "ProRata" ->
            ProRata_calculate_allocation(ords, alg, queue, quantity_to_fill)
      [] alg.name = "ProRataTobFifo" ->
            TobFifo_calculate_allocation(ords, alg, queue, quantity_to_fill)
      [] alg.name = "LmmPriority" ->
            Lmm_calculate_allocation(ords, alg, queue, quantity_to_fill)
      [] alg.name = "ThresholdProRata" ->
            Threshold_calculate_allocation(ords, alg, queue, quantity_to_fill)

\* ------------------------------------------------------------------------
\* Configurations and inputs
\* ------------------------------------------------------------------------
Algorithm(name, use_simd, minimum_quantity, threshold, lmm_accounts, num, den) ==
    [name |-> name, use_simd |-> use_simd, minimum_quantity |-> minimum_quantity,
     threshold |-> threshold, lmm_accounts |-> lmm_accounts,
     lmm_allocation_pct |-> [num |-> num, den |-> den]]

MinimumQuantities == {0, 2 * QtyOne}

\* the policies of factory.rs create_matching_algorithm, with small parameters
Algorithms ==
    {Algorithm("PriceTime", s, 0, 0, {}, 0, 1) : s \in BOOLEAN}
    \cup {Algorithm("ProRata", FALSE, m, 0, {}, 0, 1) : m \in MinimumQuantities}
    \cup {Algorithm("ProRataTobFifo", FALSE, m, 0, {}, 0, 1) : m \in MinimumQuantities}
    \cup {Algorithm("LmmPriority", FALSE, m, 0, {"mm1"}, 1, 2) : m \in MinimumQuantities}
    \cup {Algorithm("ThresholdProRata", FALSE, m, 2 * QtyOne, {}, 0, 1) :
            m \in {0, 3 * QtyOne}}

Quantities == {k * QtyOne : k \in 1..MaxQty}
Prices == 1..MaxPrice

\* user_id is read by LmmPriority::is_lmm only
UserIds(alg) == IF alg.name = "LmmPriority" THEN {"mm1", "user1"} ELSE {"user1"}

\* the orders a caller submits: limit orders with a price, market orders without
\* (a market taker never rests, so its user_id is never read)
OrderInputs(alg) ==
    [side : Sides, order_type : {"Limit"}, price : {Some(p) : p \in Prices},
     quantity : Quantities, time_in_force : {"GoodTillCancel"},
     user_id : UserIds(alg)]
    \cup
    [side : Sides, order_type : {"Market"}, price : {None},
     quantity : Quantities, time_in_force : {"ImmediateOrCancel"},
     user_id : {"user1"}]

\* ------------------------------------------------------------------------
\* engine/matching_engine.rs and the match_order loops
\* ------------------------------------------------------------------------
\* a validation without the quantity check
validate_order_any_quantity(o) ==
    IF is_limit_order(o) /\ o.price = None THEN "Limit orders must have a price"
    ELSE IF is_limit_order(o) /\ o.price # None /\ Unwrap(o.price) <= 0
         THEN "Price must be positive"
    ELSE "Ok"

\* MatchingEngine::validate_order
validate_order(o) ==
    IF o.quantity <= 0 THEN "Quantity must be positive"
    ELSE IF is_limit_order(o) /\ o.price = None THEN "Limit orders must have a price"
    ELSE IF is_limit_order(o) /\ o.price # None /\ Unwrap(o.price) <= 0
         THEN "Price must be positive"
    ELSE "Ok"

\* Trade::new
NewTrade(maker_order_id, taker_order_id, price, quantity) ==
    [maker_order_id |-> maker_order_id, taker_order_id |-> taker_order_id,
     price |-> price, quantity |-> quantity]

\* the execution price handed to Trade::new: maker_order.price.unwrap()
TradePrice(maker) == Unwrap(maker.price)

\* trade_quantity of PriceTimePriority::match_order
PriceTimeQuantity(taker_remaining, maker_remaining) ==
    Min(taker_remaining, maker_remaining)

\* trade_quantity of the allocation policies
AllocatedQuantity(allocated_qty, maker_remaining) ==
    Min(allocated_qty, maker_remaining)

\* the SIMD pre-check at the head of PriceTimePriority::match_order: TRUE when
\* match_order returns before its loop
SimdNoCross(alg, incoming, levels) ==
    /\ alg.name = "PriceTime"
    /\ alg.use_simd
    /\ incoming.price # None
    /\ find_crossing_prices(incoming.side, Unwrap(incoming.price),
                            SortedKeys(DOMAIN levels)) = {}

SetOppositeLevels(side, levels) ==
    IF side = "Buy" THEN asks' = levels /\ UNCHANGED bids
    ELSE bids' = levels /\ UNCHANGED asks

FilledQuantities(ords) == [i \in 1..Len(ords) |-> ords[i].filled_quantity]

\* submit_order up to the call of match_order, and match_order's prologue
SubmitOrder(inp) ==
    /\ pc = "idle"
    /\ LET id == Len(orders) + 1
           o == NewOrder(inp)
           reason == validate_order(o)
           received == [type |-> "OrderReceived", order_id |-> id]
           rejected == [o EXCEPT !.state = "Rejected"]
           accepted == [o EXCEPT !.sequence_number = sequence_counter,
                                 !.state = "Accepted"]
       IN /\ op' = <<"submit", id>>
          /\ taker' = id
          /\ IF reason # "Ok"
             THEN /\ orders' = Append(orders, rejected)
                  /\ events' = <<received, [type |-> "OrderRejected", order_id |-> id,
                                            reason |-> reason]>>
                  /\ pc' = "return"
                  /\ result' = "events"
                  /\ UNCHANGED sequence_counter
             ELSE /\ orders' = Append(orders, accepted)
                  /\ sequence_counter' = sequence_counter + 1
                  /\ events' = <<received, [type |-> "OrderAccepted", order_id |-> id]>>
                  /\ pc' = IF SimdNoCross(algorithm, accepted,
                                          OppositeLevels(accepted.side))
                           THEN "finish" ELSE "match"
                  /\ result' = "none"
          /\ filled_before' = FilledQuantities(orders')
    /\ UNCHANGED <<algorithm, args, ret, bids, asks, order_index, best_level, allocations,
                   remaining_to_fill, trades, fill_calls,
                   submit_calls, detached_levels>>

\* the head of the while loop of match_order: loop condition, best_level,
\* prices_cross and, for the allocation policies, calculate_allocation
MatchLoop ==
    /\ pc = "match"
    /\ LET t == orders[taker]
           opp == OppositeLevels(t.side)
           best == best_price(OppositeSide(t.side), opp)
       IN IF \/ ~(t.remaining_quantity > 0)
             \/ best = None
             \/ ~prices_cross(t, opp[Unwrap(best)].price)
          THEN /\ pc' = "finish"
               /\ UNCHANGED <<bids, asks, best_level, allocations, remaining_to_fill>>
          ELSE IF algorithm.name = "PriceTime"
          THEN /\ pc' = "pop"
               /\ best_level' = best
               /\ UNCHANGED <<bids, asks, allocations, remaining_to_fill>>
          ELSE LET key == Unwrap(best)
                   ca == calculate_allocation(orders, algorithm, opp[key].orders,
                                              t.remaining_quantity)
               IN /\ best_level' = best
                  /\ remaining_to_fill' = t.remaining_quantity
                  /\ SetOppositeLevels(t.side, [opp EXCEPT ![key].orders = ca.orders])
                  /\ allocations' = ca.allocations
                  /\ pc' = IF ca.allocations = <<>> THEN "finish" ELSE "exec"
    /\ UNCHANGED <<algorithm, args, ret, orders, order_index, sequence_counter, op, taker,
                   trades, events, result, filled_before, fill_calls,
                   submit_calls, detached_levels>>

\* a pop from the tail of the queue
PopTail(queue) ==
    [order |-> queue[Len(queue)], rest |-> SubSeq(queue, 1, Len(queue) - 1)]

\* SegQueue::pop on a non-empty queue: the order at the head and the rest
PopOrder(queue) == [order |-> Head(queue), rest |-> Tail(queue)]

\* one iteration of the pop loop of PriceTimePriority::match_order
PopMaker ==
    /\ pc = "pop"
    /\ LET t == orders[taker]
           opp == OppositeLevels(t.side)
           key == Unwrap(best_level)
           level == opp[key]
       IN IF level.orders = <<>>
          THEN /\ pc' = "sweep"
               /\ UNCHANGED <<orders, bids, asks, trades>>
          ELSE
          LET popped == PopOrder(level.orders)
              m == popped.order
              maker_order == orders[m]
              maker_remaining == maker_order.remaining_quantity
              taker_remaining == t.remaining_quantity
              trade_quantity == PriceTimeQuantity(taker_remaining, maker_remaining)
              maker_ok == try_fill_ok(maker_order, trade_quantity)
              taker_ok == maker_ok /\ try_fill_ok(t, trade_quantity)
              maker1 == IF maker_ok THEN try_fill(maker_order, trade_quantity)
                        ELSE maker_order
              taker1 == IF taker_ok THEN try_fill(t, trade_quantity) ELSE t
              put_back == taker_ok /\ maker1.remaining_quantity > 0
              level1 == IF taker_ok THEN subtract_quantity(level, trade_quantity)
                        ELSE level
              queue1 == IF put_back THEN Append(popped.rest, m)
                        ELSE popped.rest
          IN IF maker_remaining = 0
             THEN /\ SetOppositeLevels(t.side,
                        [opp EXCEPT ![key].orders = popped.rest])
                  /\ UNCHANGED <<orders, trades, pc>>
             ELSE /\ orders' = [orders EXCEPT ![m] = maker1, ![taker] = taker1]
                  /\ SetOppositeLevels(t.side,
                        [opp EXCEPT ![key] = [level1 EXCEPT !.orders = queue1]])
                  /\ trades' = IF taker_ok
                               THEN Append(trades, NewTrade(m, taker,
                                        TradePrice(maker_order), trade_quantity))
                               ELSE trades
                  /\ pc' = IF put_back \/ taker1.remaining_quantity = 0
                           THEN "sweep" ELSE "pop"
    /\ UNCHANGED <<algorithm, args, ret, order_index, sequence_counter, op, taker, best_level,
                   allocations, remaining_to_fill, events, result, filled_before,
                   fill_calls,
                   submit_calls, detached_levels>>

\* the search for the allocated order in the level's queue: whether it is
\* found, the queue afterwards, and whether the search loops forever
FindOrder(alg, queue, order_id) ==
    LET k == IndexOf(queue, order_id)
        pre == SubSeq(queue, 1, k - 1)
        post == SubSeq(queue, k + 1, Len(queue))
    IN IF alg.name = "ProRata"
       THEN IF k = 0
            THEN [found |-> FALSE, orders |-> queue, spins |-> queue # <<>>]
            ELSE [found |-> TRUE, orders |-> post \o pre, spins |-> FALSE]
       ELSE IF k = 0
            THEN [found |-> FALSE, orders |-> Reverse(queue), spins |-> FALSE]
            ELSE [found |-> TRUE, orders |-> post \o Reverse(pre), spins |-> FALSE]

\* one iteration of the "Execute allocations" loop of the allocation policies
ExecAllocation ==
    /\ pc = "exec"
    /\ LET t == orders[taker]
           opp == OppositeLevels(t.side)
           key == Unwrap(best_level)
           level == opp[key]
       IN IF allocations = <<>>
          THEN /\ pc' = "sweep"
               /\ UNCHANGED <<orders, bids, asks, trades, allocations>>
          ELSE
          LET a == Head(allocations)
              f == FindOrder(algorithm, level.orders, a.order_id)
              maker_order == orders[a.order_id]
              trade_quantity == AllocatedQuantity(a.qty, maker_order.remaining_quantity)
              maker_ok == /\ f.found
                          /\ trade_quantity > 0
                          /\ try_fill_ok(maker_order, trade_quantity)
              taker_ok == maker_ok /\ try_fill_ok(t, trade_quantity)
              maker1 == IF maker_ok THEN try_fill(maker_order, trade_quantity)
                        ELSE maker_order
              taker1 == IF taker_ok THEN try_fill(t, trade_quantity) ELSE t
              put_back == taker_ok /\ maker1.remaining_quantity > 0
              level1 == IF taker_ok THEN subtract_quantity(level, trade_quantity)
                        ELSE level
              queue1 == IF put_back THEN Append(f.orders, a.order_id) ELSE f.orders
          IN IF a.qty <= 0
             THEN /\ allocations' = Tail(allocations)
                  /\ UNCHANGED <<orders, bids, asks, trades, pc>>
             ELSE IF f.spins
             THEN /\ pc' = "spin"
                  /\ UNCHANGED <<orders, bids, asks, trades, allocations>>
             ELSE /\ orders' = [orders EXCEPT ![a.order_id] = maker1, ![taker] = taker1]
                  /\ SetOppositeLevels(t.side,
                        [opp EXCEPT ![key] = [level1 EXCEPT !.orders = queue1]])
                  /\ trades' = IF taker_ok
                               THEN Append(trades, NewTrade(a.order_id, taker,
                                        TradePrice(maker_order), trade_quantity))
                               ELSE trades
                  /\ allocations' = Tail(allocations)
                  /\ pc' = IF taker1.remaining_quantity = 0 THEN "sweep" ELSE "exec"
    /\ UNCHANGED <<algorithm, args, ret, order_index, sequence_counter, op, taker, best_level,
                   remaining_to_fill, events, result, filled_before, fill_calls,
                   submit_calls, detached_levels>>

\* the end of a level step: "Clean up empty levels" and the test that ends or
\* repeats the while loop
SweepLevel ==
    /\ pc = "sweep"
    /\ LET t == orders[taker]
           opp == OppositeLevels(t.side)
           key == Unwrap(best_level)
       IN /\ SetOppositeLevels(t.side,
                IF opp[key].orders = <<>> THEN remove_empty_levels(opp) ELSE opp)
          /\ pc' = IF algorithm.name = "PriceTime"
                   THEN IF t.remaining_quantity = 0 THEN "finish" ELSE "match"
                   ELSE IF t.remaining_quantity = remaining_to_fill THEN "finish"
                        ELSE "match"
    /\ UNCHANGED <<algorithm, args, ret, orders, order_index, sequence_counter, op, taker,
                   best_level, allocations, remaining_to_fill, trades, events,
                   result, filled_before, fill_calls, submit_calls, detached_levels>>

\* MatchingEngine::add_to_book, for an order with a price
AddToBook(id, o) ==
    /\ IF o.side = "Buy"
       THEN bids' = SideAddOrder(bids, id, o) /\ UNCHANGED asks
       ELSE asks' = SideAddOrder(asks, id, o) /\ UNCHANGED bids
    /\ order_index' = order_index \cup {id}

\* OrderMatched events of the trades, in trade order
MatchedEvents(ts) == [i \in 1..Len(ts) |-> [type |-> "OrderMatched", trade |-> ts[i]]]

\* what submit_order does with the taker after match_order:
\* "filled", "rest", "cancel" or "keep"
Disposition(o) ==
    IF o.remaining_quantity = 0 /\ o.filled_quantity > 0 THEN "filled"
    ELSE IF o.filled_quantity > 0
         THEN CASE o.time_in_force = "GoodTillCancel" -> "rest"
                [] o.time_in_force \in {"ImmediateOrCancel", "FillOrKill"} -> "cancel"
                [] OTHER -> "keep"
    ELSE "rest"

\* submit_order after match_order has returned: trade events, final state,
\* time-in-force handling
FinishSubmit ==
    /\ pc = "finish"
    /\ LET t == orders[taker]
           remaining == t.remaining_quantity
           filled == t.filled_quantity
           d == Disposition(t)
           matched == events \o MatchedEvents(trades)
           partially == IF filled > 0 /\ d # "filled"
                        THEN <<[type |-> "OrderPartiallyFilled", order_id |-> taker,
                                filled_quantity |-> filled,
                                remaining_quantity |-> remaining]>>
                        ELSE <<>>
       IN /\ pc' = "return"
          /\ CASE d = "filled" ->
                    /\ events' = Append(matched, [type |-> "OrderFilled",
                                    order_id |-> taker, total_filled |-> filled])
                    /\ result' = "events"
                    /\ UNCHANGED <<orders, bids, asks, order_index>>
               [] d = "rest" /\ t.price = None ->
                    \* add_to_book: order.price.expect(..) unwinds submit_order
                    /\ events' = <<>>
                    /\ result' = "panic"
                    /\ UNCHANGED <<orders, bids, asks, order_index>>
               [] d = "rest" /\ t.price # None ->
                    /\ AddToBook(taker, t)
                    /\ events' = matched \o partially \o
                                 <<[type |-> "OrderAddedToBook", order_id |-> taker,
                                    price |-> Unwrap(t.price), quantity |-> remaining]>>
                    /\ result' = "events"
                    /\ UNCHANGED orders
               [] d = "cancel" ->
                    /\ orders' = [orders EXCEPT ![taker].state = "Cancelled"]
                    /\ events' = matched \o partially \o
                                 <<[type |-> "OrderCancelled", order_id |-> taker]>>
                    /\ result' = "events"
                    /\ UNCHANGED <<bids, asks, order_index>>
               [] d = "keep" ->
                    /\ events' = matched \o partially
                    /\ result' = "events"
                    /\ UNCHANGED <<orders, bids, asks, order_index>>
    /\ UNCHANGED <<algorithm, args, ret, sequence_counter, op, taker, best_level, allocations,
                   remaining_to_fill, trades, filled_before, fill_calls,
                   submit_calls, detached_levels>>

\* a lookup that leaves the entry in the index
IndexKeep(index, order_id) == index

\* order_index.write().remove(&order_id): the index afterwards
IndexRemove(index, order_id) == index \ {order_id}

\* MatchingEngine::cancel_order
CancelOrder(order_id) ==
    /\ pc = "idle"
    /\ pc' = "return"
    /\ op' = <<"cancel", order_id>>
    /\ filled_before' = FilledQuantities(orders)
    /\ IF order_id \in order_index
       THEN /\ order_index' = IndexRemove(order_index, order_id)
            /\ orders' = [orders EXCEPT ![order_id] = try_cancel(@)]
            /\ IF try_cancel_ok(orders[order_id])
               THEN /\ events' = <<[type |-> "OrderCancelled", order_id |-> order_id]>>
                    /\ result' = "Some"
               ELSE /\ events' = <<>>
                    /\ result' = "None"
       ELSE /\ events' = <<>>
            /\ result' = "None"
            /\ UNCHANGED <<orders, order_index>>
    /\ UNCHANGED <<algorithm, args, ret, bids, asks, sequence_counter, taker, best_level,
                   allocations, remaining_to_fill, trades, fill_calls,
                   submit_calls, detached_levels>>

\* the call in flight returns to its caller
Return ==
    /\ pc = "return"
    /\ pc' = "idle"
    /\ op' = <<>>
    /\ taker' = 0
    /\ best_level' = None
    /\ allocations' = <<>>
    /\ remaining_to_fill' = 0
    /\ trades' = <<>>
    /\ events' = <<>>
    /\ result' = "none"
    /\ filled_before' = <<>>
    /\ UNCHANGED <<algorithm, args, ret, orders, bids, asks, order_index, sequence_counter,
                   fill_calls,
                   submit_calls, detached_levels>>

\* MatchingEngine::new, for every configuration
Init ==
    /\ algorithm \in Algorithms
    /\ orders = <<>>
    /\ bids = <<>>
    /\ asks = <<>>
    /\ order_index = {}
    /\ sequence_counter = 0
    /\ pc = "idle"
    /\ op = <<>>
    /\ taker = 0
    /\ best_level = None
    /\ allocations = <<>>
    /\ remaining_to_fill = 0
    /\ trades = <<>>
    /\ events = <<>>
    /\ result = "none"
    /\ filled_before = <<>>
    /\ fill_calls = <<>>
    /\ submit_calls = <<>>
    /\ detached_levels = <<>>
    /\ args = <<>>
    /\ ret = <<>>

Submit ==
    /\ Len(orders) < MaxOrders
    /\ \E inp \in OrderInputs(algorithm) : SubmitOrder(inp)

\* order id 0 stands for the id of an order the engine never saw
Cancel == \E order_id \in 0..Len(orders) : CancelOrder(order_id)

Next ==
    \/ Submit
    \/ MatchLoop
    \/ PopMaker
    \/ ExecAllocation
    \/ SweepLevel
    \/ FinishSubmit
    \/ Cancel
    \/ Return

Spec == Init /\ [][Next]_vars

\* ------------------------------------------------------------------------
\* submit_order for every order a caller can construct with Order::new
\* ------------------------------------------------------------------------
\* enum TimeInForce
TimesInForce == {"GoodTillCancel", "ImmediateOrCancel", "FillOrKill", "GoodTillDate"}

\* every combination of the arguments of Order::new: price present or absent
\* (zero included), quantity zero included, every order type and time in force
AnyOrderInputs ==
    [side : Sides, order_type : {"Limit", "Market"},
     price : {None} \cup {Some(p) : p \in 0..MaxPrice},
     quantity : {0} \cup Quantities, time_in_force : TimesInForce,
     user_id : {"user1"}]

\* the policies the engine is built with when every input is explored
AnyAlgorithms ==
    {Algorithm("PriceTime", FALSE, 0, 0, {}, 0, 1),
     Algorithm("ProRata", FALSE, 0, 0, {}, 0, 1)}

\* OrderBookConfig::tick_size and lot_size of the configuration handed to
\* create_from_config, which builds the engine from instrument and algorithm only
tick_size == Some(2)
lot_size == Some(2 * QtyOne)

InitAny == Init /\ algorithm \in AnyAlgorithms

SubmitAny ==
    /\ Len(orders) < MaxAnyOrders
    /\ \E inp \in AnyOrderInputs : SubmitOrder(inp)

NextAny ==
    \/ SubmitAny
    \/ MatchLoop
    \/ PopMaker
    \/ ExecAllocation
    \/ SweepLevel
    \/ FinishSubmit
    \/ Cancel
    \/ Return

SpecAny == InitAny /\ [][NextAny]_vars

\* ------------------------------------------------------------------------
\* Order::try_fill and Order::try_cancel, one atomic operation per step, called
\* concurrently on the order orders[1]
\* ------------------------------------------------------------------------
FillCallIds == 1..MaxFillCalls

IdleCall == [pc |-> "idle", quantity |-> 0, current |-> 0, new_remaining |-> 0,
             ret |-> "none"]

EngineVars == <<algorithm, args, ret, bids, asks, order_index, sequence_counter, pc, op, taker,
                best_level, allocations, remaining_to_fill, trades, events, result,
                filled_before, submit_calls, detached_levels>>

\* a thread calls try_fill(quantity)
FillCall(c, quantity) ==
    /\ fill_calls[c].pc = "idle"
    /\ fill_calls' = [fill_calls EXCEPT ![c] =
                        [IdleCall EXCEPT !.pc = "load", !.quantity = quantity]]
    /\ UNCHANGED <<orders, EngineVars>>

\* remaining_quantity.load, and the early return
FillLoad(c) ==
    /\ fill_calls[c].pc = "load"
    /\ LET current_remaining == orders[1].remaining_quantity
           call == fill_calls[c]
       IN fill_calls' = [fill_calls EXCEPT ![c] =
            IF current_remaining < call.quantity
            THEN [call EXCEPT !.pc = "done", !.ret = "false",
                              !.current = current_remaining]
            ELSE [call EXCEPT !.pc = "cas", !.current = current_remaining,
                              !.new_remaining = current_remaining - call.quantity]]
    /\ UNCHANGED <<orders, EngineVars>>

\* a plain store of new_remaining in place of the compare_exchange
FillStoreRemaining(c) ==
    /\ fill_calls[c].pc = "cas"
    /\ orders' = [orders EXCEPT ![1].remaining_quantity = fill_calls[c].new_remaining]
    /\ fill_calls' = [fill_calls EXCEPT ![c].pc = "add"]
    /\ UNCHANGED EngineVars

\* remaining_quantity.compare_exchange(current_remaining, new_remaining)
FillCas(c) ==
    /\ fill_calls[c].pc = "cas"
    /\ LET call == fill_calls[c]
       IN IF orders[1].remaining_quantity = call.current
          THEN /\ orders' = [orders EXCEPT ![1].remaining_quantity = call.new_remaining]
               /\ fill_calls' = [fill_calls EXCEPT ![c].pc = "add"]
          ELSE /\ fill_calls' = [fill_calls EXCEPT ![c].pc = "load"]
               /\ UNCHANGED orders
    /\ UNCHANGED EngineVars

\* filled_quantity.fetch_add(quantity_raw)
FillAdd(c) ==
    /\ fill_calls[c].pc = "add"
    /\ orders' = [orders EXCEPT ![1].filled_quantity = @ + fill_calls[c].quantity]
    /\ fill_calls' = [fill_calls EXCEPT ![c].pc = "store"]
    /\ UNCHANGED EngineVars

\* state.store(Filled or PartiallyFilled), and return true
FillStore(c) ==
    /\ fill_calls[c].pc = "store"
    /\ orders' = [orders EXCEPT ![1].state = FillState(fill_calls[c].new_remaining)]
    /\ fill_calls' = [fill_calls EXCEPT ![c].pc = "done", ![c].ret = "true"]
    /\ UNCHANGED EngineVars

\* a thread calls try_cancel()
CancelCall(c) ==
    /\ fill_calls[c].pc = "idle"
    /\ fill_calls' = [fill_calls EXCEPT ![c] = [IdleCall EXCEPT !.pc = "cload"]]
    /\ UNCHANGED <<orders, EngineVars>>

\* state.load, and the early return of try_cancel
CancelLoad(c) ==
    /\ fill_calls[c].pc = "cload"
    /\ LET current_state == orders[1].state
           call == fill_calls[c]
       IN fill_calls' = [fill_calls EXCEPT ![c] =
            IF ~can_be_cancelled(current_state)
            THEN [call EXCEPT !.pc = "done", !.ret = "false", !.current = current_state]
            ELSE [call EXCEPT !.pc = "ccas", !.current = current_state]]
    /\ UNCHANGED <<orders, EngineVars>>

\* state.compare_exchange(current_state, Cancelled).is_ok()
CancelCas(c) ==
    /\ fill_calls[c].pc = "ccas"
    /\ IF orders[1].state = fill_calls[c].current
       THEN /\ orders' = [orders EXCEPT ![1].state = "Cancelled"]
            /\ fill_calls' = [fill_calls EXCEPT ![c].pc = "done", ![c].ret = "true"]
       ELSE /\ fill_calls' = [fill_calls EXCEPT ![c].pc = "done", ![c].ret = "false"]
            /\ UNCHANGED orders
    /\ UNCHANGED EngineVars

\* an accepted order shared by MaxFillCalls threads
InitOrder ==
    /\ algorithm = Algorithm("PriceTime", FALSE, 0, 0, {}, 0, 1)
    /\ \E quantity \in Quantities :
          orders = <<[NewOrder([side |-> "Sell", order_type |-> "Limit",
                                price |-> Some(1), quantity |-> quantity,
                                time_in_force |-> "GoodTillCancel",
                                user_id |-> "user1"])
                      EXCEPT !.state = "Accepted"]>>
    /\ bids = <<>>
    /\ asks = <<>>
    /\ order_index = {}
    /\ sequence_counter = 1
    /\ pc = "idle"
    /\ op = <<>>
    /\ taker = 0
    /\ best_level = None
    /\ allocations = <<>>
    /\ remaining_to_fill = 0
    /\ trades = <<>>
    /\ events = <<>>
    /\ result = "none"
    /\ filled_before = <<>>
    /\ fill_calls = [c \in FillCallIds |-> IdleCall]
    /\ submit_calls = <<>>
    /\ detached_levels = <<>>
    /\ args = <<>>
    /\ ret = <<>>

\* the quantities handed to try_fill: half a unit up to MaxQty units
FillQuantities == {k * (QtyOne \div 2) : k \in 1..(2 * MaxQty)}

NextOrder ==
    \E c \in FillCallIds :
        \/ \E quantity \in FillQuantities : FillCall(c, quantity)
        \/ FillLoad(c)
        \/ FillCas(c)
        \/ FillAdd(c)
        \/ FillStore(c)
        \/ CancelCall(c)
        \/ CancelLoad(c)
        \/ CancelCas(c)

SpecOrder == InitOrder /\ [][NextOrder]_vars

\* ------------------------------------------------------------------------
\* submit_order called concurrently on one PriceTime engine: one step per
\* access to the shared book (SkipMap, SegQueue, atomics, order_index)
\* ------------------------------------------------------------------------
SubmitCallIds == 1..MaxSubmitCalls

IdleSubmit == [pc |-> "idle", order |-> 0, level |-> None, maker |-> 0,
               to_remove |-> {}]

\* an Arc<OrderBookLevel>: the level at a key of a ladder, or a level that has
\* been removed from its ladder while the Arc was held
BookRef(side, key) == [kind |-> "book", side |-> side, key |-> key]
DetachedRef(i) == [kind |-> "detached", side |-> "none", key |-> i]

Ladder(side) == IF side = "Buy" THEN bids ELSE asks

Deref(ref) ==
    IF ref.kind = "book" THEN Ladder(ref.side)[ref.key] ELSE detached_levels[ref.key]

\* a write to the level behind an Arc
WriteLevel(ref, level) ==
    IF ref.kind = "detached"
    THEN /\ detached_levels' = [detached_levels EXCEPT ![ref.key] = level]
         /\ UNCHANGED <<bids, asks>>
    ELSE IF ref.side = "Buy"
    THEN /\ bids' = [bids EXCEPT ![ref.key] = level]
         /\ UNCHANGED <<asks, detached_levels>>
    ELSE /\ asks' = [asks EXCEPT ![ref.key] = level]
         /\ UNCHANGED <<bids, detached_levels>>

SetLadder(side, levels) ==
    IF side = "Buy" THEN bids' = levels /\ UNCHANGED asks
    ELSE asks' = levels /\ UNCHANGED bids

SubmitVars == <<algorithm, args, ret, pc, op, taker, best_level, allocations, remaining_to_fill,
                events, result, filled_before, fill_calls>>

\* the limit orders of OrderInputs and one order that fails validation
SubmitInputs ==
    {inp \in OrderInputs(algorithm) : inp.order_type = "Limit"}
    \cup {[side |-> "Buy", order_type |-> "Limit", price |-> Some(1), quantity |-> 0,
           time_in_force |-> "GoodTillCancel", user_id |-> "user1"]}

\* submit_order: validation
CallSubmit(t, inp) ==
    /\ submit_calls[t].pc = "idle"
    /\ Len(orders) < MaxOrders
    /\ LET id == Len(orders) + 1
           o == NewOrder(inp)
       IN IF validate_order(o) # "Ok"
          THEN /\ orders' = Append(orders, [o EXCEPT !.state = "Rejected"])
               /\ UNCHANGED submit_calls
          ELSE /\ orders' = Append(orders, o)
               /\ submit_calls' = [submit_calls EXCEPT ![t] =
                                     [IdleSubmit EXCEPT !.pc = "accept", !.order = id]]
    /\ UNCHANGED <<bids, asks, order_index, sequence_counter, trades,
                   detached_levels, SubmitVars>>

\* variant: the counter is read with a load, not fetch_add
CallAcceptLoad(t) ==
    /\ submit_calls[t].pc = "accept"
    /\ orders' = [orders EXCEPT ![submit_calls[t].order] =
                    [@ EXCEPT !.sequence_number = sequence_counter,
                              !.state = "Accepted"]]
    /\ submit_calls' = [submit_calls EXCEPT ![t].pc = "loop"]
    /\ UNCHANGED <<bids, asks, order_index, sequence_counter, trades,
                   detached_levels, SubmitVars>>

\* submit_order: sequence_counter.fetch_add(1), set_sequence_number, Accepted (one
\* step: the order is not yet visible to any other thread)
CallAccept(t) ==
    /\ submit_calls[t].pc = "accept"
    /\ orders' = [orders EXCEPT ![submit_calls[t].order] =
                    [@ EXCEPT !.sequence_number = sequence_counter,
                              !.state = "Accepted"]]
    /\ sequence_counter' = sequence_counter + 1
    /\ submit_calls' = [submit_calls EXCEPT ![t].pc = "loop"]
    /\ UNCHANGED <<bids, asks, order_index, trades, detached_levels, SubmitVars>>

\* PriceTimePriority::match_order: loop condition, best_level, prices_cross
CallBest(t) ==
    /\ submit_calls[t].pc = "loop"
    /\ LET tk == orders[submit_calls[t].order]
           opp == OppositeLevels(tk.side)
           best == best_price(OppositeSide(tk.side), opp)
       IN submit_calls' = [submit_calls EXCEPT ![t] =
            IF \/ ~(tk.remaining_quantity > 0)
               \/ best = None
               \/ ~prices_cross(tk, opp[Unwrap(best)].price)
            THEN [@ EXCEPT !.pc = "finish", !.level = None]
            ELSE [@ EXCEPT !.pc = "pop",
                           !.level = Some(BookRef(OppositeSide(tk.side), Unwrap(best)))]]
    /\ UNCHANGED <<orders, bids, asks, order_index, sequence_counter, trades,
                   detached_levels, SubmitVars>>

\* match_order: best_level.orders.pop(), the two try_fill calls, Trade::new and
\* subtract_quantity (the popped maker is held by this thread alone)
CallPop(t) ==
    /\ submit_calls[t].pc = "pop"
    /\ LET call == submit_calls[t]
           ref == Unwrap(call.level)
           level == Deref(ref)
           tk == orders[call.order]
       IN IF level.orders = <<>>
          THEN /\ submit_calls' = [submit_calls EXCEPT ![t].pc = "clean"]
               /\ UNCHANGED <<orders, bids, asks, detached_levels, trades>>
          ELSE
          LET popped == PopOrder(level.orders)
              m == popped.order
              maker_order == orders[m]
              maker_remaining == maker_order.remaining_quantity
              trade_quantity == PriceTimeQuantity(tk.remaining_quantity,
                                                  maker_remaining)
              maker_ok == try_fill_ok(maker_order, trade_quantity)
              taker_ok == maker_ok /\ try_fill_ok(tk, trade_quantity)
              maker1 == try_fill(maker_order, trade_quantity)
              taker1 == IF taker_ok THEN try_fill(tk, trade_quantity) ELSE tk
              put_back == taker_ok /\ maker1.remaining_quantity > 0
              level1 == IF taker_ok THEN subtract_quantity(level, trade_quantity)
                        ELSE level
          IN IF maker_remaining = 0
             THEN /\ WriteLevel(ref, [level EXCEPT !.orders = popped.rest])
                  /\ UNCHANGED <<orders, trades, submit_calls>>
             ELSE /\ orders' = [orders EXCEPT ![m] = maker1, ![call.order] = taker1]
                  /\ WriteLevel(ref, [level1 EXCEPT !.orders = popped.rest])
                  /\ trades' = IF taker_ok
                               THEN Append(trades, NewTrade(m, call.order,
                                        TradePrice(maker_order), trade_quantity))
                               ELSE trades
                  /\ submit_calls' = [submit_calls EXCEPT ![t] =
                        IF put_back THEN [@ EXCEPT !.pc = "push", !.maker = m]
                        ELSE IF taker1.remaining_quantity = 0
                        THEN [@ EXCEPT !.pc = "clean"]
                        ELSE @]
    /\ UNCHANGED <<order_index, sequence_counter, SubmitVars>>

\* match_order: best_level.orders.push(maker_order) of the partially filled maker
CallPush(t) ==
    /\ submit_calls[t].pc = "push"
    /\ LET call == submit_calls[t]
           ref == Unwrap(call.level)
           level == Deref(ref)
       IN WriteLevel(ref, [level EXCEPT !.orders = Append(@, call.maker)])
    /\ submit_calls' = [submit_calls EXCEPT ![t].pc = "clean", ![t].maker = 0]
    /\ UNCHANGED <<orders, order_index, sequence_counter, trades, SubmitVars>>

\* where match_order goes after the level step
AfterLevel(call) ==
    [call EXCEPT !.pc = IF orders[call.order].remaining_quantity = 0
                        THEN "finish" ELSE "loop",
                 !.level = None, !.to_remove = {}]

\* match_order: best_level.is_empty(), and the scan of remove_empty_levels
CallScan(t) ==
    /\ submit_calls[t].pc = "clean"
    /\ LET call == submit_calls[t]
           opp == OppositeLevels(orders[call.order].side)
       IN submit_calls' = [submit_calls EXCEPT ![t] =
            IF Deref(Unwrap(call.level)).orders = <<>>
            THEN [@ EXCEPT !.pc = "remove",
                           !.to_remove = {k \in DOMAIN opp : opp[k].orders = <<>>}]
            ELSE AfterLevel(@)]
    /\ UNCHANGED <<orders, bids, asks, order_index, sequence_counter, trades,
                   detached_levels, SubmitVars>>

\* remove_empty_levels: levels.remove(&key) for the keys found by the scan; a
\* removed level lives on behind the Arcs other threads hold
CallRemove(t) ==
    /\ submit_calls[t].pc = "remove"
    /\ LET call == submit_calls[t]
           side == OppositeSide(orders[call.order].side)
           opp == Ladder(side)
           removed == call.to_remove \cap DOMAIN opp
           held == {k \in removed : \E u \in SubmitCallIds \ {t} :
                        submit_calls[u].level = Some(BookRef(side, k))}
           keys == SortedKeys(held)
           moved(u) == LET ref == Unwrap(submit_calls[u].level)
                       IN Some(DetachedRef(Len(detached_levels)
                                           + IndexOf(keys, ref.key)))
       IN /\ SetLadder(side, [k \in DOMAIN opp \ removed |-> opp[k]])
          /\ detached_levels' = detached_levels
                                  \o [i \in 1..Len(keys) |-> opp[keys[i]]]
          /\ submit_calls' = [u \in SubmitCallIds |->
                IF u = t THEN AfterLevel(call)
                ELSE IF /\ submit_calls[u].level # None
                        /\ Unwrap(submit_calls[u].level).kind = "book"
                        /\ Unwrap(submit_calls[u].level).side = side
                        /\ Unwrap(submit_calls[u].level).key \in held
                THEN [submit_calls[u] EXCEPT !.level = moved(u)]
                ELSE submit_calls[u]]
    /\ UNCHANGED <<orders, order_index, sequence_counter, trades, SubmitVars>>

\* submit_order after match_order: the final state of the order, and for an
\* order that rests the get_or_insert of OrderBookSide::add_order
CallFinish(t) ==
    /\ submit_calls[t].pc = "finish"
    /\ LET call == submit_calls[t]
           o == orders[call.order]
           d == Disposition(o)
           own == Ladder(o.side)
           key == Unwrap(o.price)
       IN IF d = "rest" /\ o.price # None
          THEN /\ SetLadder(o.side, IF key \in DOMAIN own THEN own
                                    ELSE own @@ (key :> NewLevel(key)))
               /\ submit_calls' = [submit_calls EXCEPT ![t].pc = "add",
                                      ![t].level = Some(BookRef(o.side, key))]
               /\ UNCHANGED orders
          ELSE /\ orders' = IF d = "cancel"
                            THEN [orders EXCEPT ![call.order].state = "Cancelled"]
                            ELSE orders
               /\ submit_calls' = [submit_calls EXCEPT ![t] = IdleSubmit]
               /\ UNCHANGED <<bids, asks>>
    /\ UNCHANGED <<order_index, sequence_counter, trades, detached_levels, SubmitVars>>

\* OrderBookLevel::add_order on the level get_or_insert returned
CallAdd(t) ==
    /\ submit_calls[t].pc = "add"
    /\ LET call == submit_calls[t]
           ref == Unwrap(call.level)
       IN WriteLevel(ref, LevelAddOrder(Deref(ref), call.order, orders[call.order]))
    /\ submit_calls' = [submit_calls EXCEPT ![t].pc = "index", ![t].level = None]
    /\ UNCHANGED <<orders, order_index, sequence_counter, trades, SubmitVars>>

\* add_to_book: order_index.write().insert, and the return of submit_order
CallIndex(t) ==
    /\ submit_calls[t].pc = "index"
    /\ order_index' = order_index \cup {submit_calls[t].order}
    /\ submit_calls' = [submit_calls EXCEPT ![t] = IdleSubmit]
    /\ UNCHANGED <<orders, bids, asks, sequence_counter, trades, detached_levels,
                   SubmitVars>>

\* a PriceTime engine shared by MaxSubmitCalls threads
InitSubmit ==
    /\ algorithm = Algorithm("PriceTime", FALSE, 0, 0, {}, 0, 1)
    /\ orders = <<>>
    /\ bids = <<>>
    /\ asks = <<>>
    /\ order_index = {}
    /\ sequence_counter = 0
    /\ pc = "idle"
    /\ op = <<>>
    /\ taker = 0
    /\ best_level = None
    /\ allocations = <<>>
    /\ remaining_to_fill = 0
    /\ trades = <<>>
    /\ events = <<>>
    /\ result = "none"
    /\ filled_before = <<>>
    /\ fill_calls = <<>>
    /\ submit_calls = [t \in SubmitCallIds |-> IdleSubmit]
    /\ detached_levels = <<>>
    /\ args = <<>>
    /\ ret = <<>>

NextSubmit ==
    \E t \in SubmitCallIds :
        \/ \E inp \in SubmitInputs : CallSubmit(t, inp)
        \/ CallAccept(t)
        \/ CallBest(t)
        \/ CallPop(t)
        \/ CallPush(t)
        \/ CallScan(t)
        \/ CallRemove(t)
        \/ CallFinish(t)
        \/ CallAdd(t)
        \/ CallIndex(t)

SpecSubmit == InitSubmit /\ [][NextSubmit]_vars

\* ------------------------------------------------------------------------
\* LmmPriority and ThresholdProRata on a book with one price and up to
\* MaxDeepOrders - 1 makers in its level
\* ------------------------------------------------------------------------
DeepAlgorithms ==
    {Algorithm("LmmPriority", FALSE, 0, 0, {"mm1"}, 1, 2),
     Algorithm("ThresholdProRata", FALSE, 0, 3 * QtyOne, {}, 0, 1)}

\* GoodTillCancel limit orders at price 1
DeepInputs(alg) ==
    [side : Sides, order_type : {"Limit"}, price : {Some(1)},
     quantity : {k * QtyOne : k \in 1..MaxDeepQty},
     time_in_force : {"GoodTillCancel"}, user_id : UserIds(alg)]

InitDeep ==
    /\ algorithm \in DeepAlgorithms
    /\ orders = <<>>
    /\ bids = <<>>
    /\ asks = <<>>
    /\ order_index = {}
    /\ sequence_counter = 0
    /\ pc = "idle"
    /\ op = <<>>
    /\ taker = 0
    /\ best_level = None
    /\ allocations = <<>>
    /\ remaining_to_fill = 0
    /\ trades = <<>>
    /\ events = <<>>
    /\ result = "none"
    /\ filled_before = <<>>
    /\ fill_calls = <<>>
    /\ submit_calls = <<>>
    /\ detached_levels = <<>>
    /\ args = <<>>
    /\ ret = <<>>

SubmitDeep ==
    /\ Len(orders) < MaxDeepOrders
    /\ \E inp \in DeepInputs(algorithm) : SubmitOrder(inp)

NextDeep ==
    \/ SubmitDeep
    \/ MatchLoop
    \/ ExecAllocation
    \/ SweepLevel
    \/ FinishSubmit
    \/ Return

SpecDeep == InitDeep /\ [][NextDeep]_vars

\* ------------------------------------------------------------------------
\* ProRata::calculate_allocation on one level, for every queue of resting
\* orders with raw remaining quantities and every quantity to fill
\* ------------------------------------------------------------------------
\* raw remaining quantities of a resting order, and raw quantities to fill
RawQuantities == 1..(MaxQty * QtyOne)

\* a Buy order resting at price 1 with the given raw remaining quantity
RestingOrder(remaining) ==
    [NewOrder([side |-> "Buy", order_type |-> "Limit", price |-> Some(1),
               quantity |-> MaxQty * QtyOne, time_in_force |-> "GoodTillCancel",
               user_id |-> "user1"])
        EXCEPT !.remaining_quantity = remaining,
               !.filled_quantity = MaxQty * QtyOne - remaining,
               !.state = IF remaining = MaxQty * QtyOne THEN "Accepted"
                         ELSE "PartiallyFilled"]

AllocAlgorithms == {Algorithm("ProRata", FALSE, m, 0, {}, 0, 1) : m \in {0, QtyOne}}

\* a ProRata engine whose bid side holds one level with up to MaxLevelOrders orders
InitAlloc ==
    /\ algorithm \in AllocAlgorithms
    /\ \E n \in 1..MaxLevelOrders :
          /\ orders \in [1..n -> {RestingOrder(r) : r \in RawQuantities}]
          /\ bids = (1 :> [price |-> 1, orders |-> [i \in 1..n |-> i],
                           total_quantity |-> SumRemaining(orders, [i \in 1..n |-> i])])
          /\ order_index = 1..n
          /\ sequence_counter = n
    /\ asks = <<>>
    /\ pc = "idle"
    /\ op = <<>>
    /\ taker = 0
    /\ best_level = Some(1)
    /\ allocations = <<>>
    /\ remaining_to_fill = 0
    /\ trades = <<>>
    /\ events = <<>>
    /\ result = "none"
    /\ filled_before = <<>>
    /\ fill_calls = <<>>
    /\ submit_calls = <<>>
    /\ detached_levels = <<>>
    /\ args = <<>>
    /\ ret = <<>>

\* match_order: calculate_allocation(&best_level, remaining_to_fill)
AllocateLevel ==
    /\ pc = "idle"
    /\ \E quantity_to_fill \in RawQuantities :
          LET key == Unwrap(best_level)
              ca == calculate_allocation(orders, algorithm, bids[key].orders,
                                         quantity_to_fill)
          IN /\ remaining_to_fill' = quantity_to_fill
             /\ allocations' = ca.allocations
             /\ bids' = [bids EXCEPT ![key].orders = ca.orders]
    /\ pc' = "exec"
    /\ UNCHANGED <<algorithm, args, ret, orders, asks, order_index, sequence_counter, op, taker,
                   best_level, trades, events, result, filled_before, fill_calls,
                   submit_calls, detached_levels>>

NextAlloc == AllocateLevel

SpecAlloc == InitAlloc /\ [][NextAlloc]_vars

\* ------------------------------------------------------------------------
\* Properties
\* ------------------------------------------------------------------------
OrderIds == 1..Len(orders)

\* a step of match_order that creates a trade, and that trade
TradeStep == Len(trades') = Len(trades) + 1
LastTrade == trades'[Len(trades')]

\* the ids queued in the levels of one side of the book
RestingIds(levels) ==
    UNION {{levels[k].orders[i] : i \in 1..Len(levels[k].orders)} : k \in DOMAIN levels}

RECURSIVE TradedAs(_, _, _)
\* the sum of the quantities of the trades ts whose field role names id
TradedAs(ts, role, id) ==
    IF ts = <<>> THEN 0
    ELSE (IF Head(ts)[role] = id THEN Head(ts).quantity ELSE 0)
         + TradedAs(Tail(ts), role, id)

SubmitInFlight == op # <<>> /\ op[1] = "submit"

\* C1: for every accepted order, in every state another thread can observe,
\* filled + remaining = original quantity and 0 <= remaining <= original.
C1_FilledPlusRemaining ==
    \A i \in OrderIds :
        orders[i].state # "Pending" =>
            /\ orders[i].filled_quantity + orders[i].remaining_quantity
                 = orders[i].quantity
            /\ 0 <= orders[i].remaining_quantity
            /\ orders[i].remaining_quantity <= orders[i].quantity

\* C2: terminal states are absorbing: no step changes the state of an order
\* that is Filled, Cancelled, Rejected or Expired.
C2_TerminalAbsorbing ==
    [][\A i \in OrderIds :
          orders[i].state \in TerminalStates => orders'[i].state = orders[i].state]_vars

\* C3: an order that cancel_order has cancelled while it rested is skipped by
\* matching: no later trade names it as maker and its filled and remaining
\* quantities never change.
C3_CancelledSkipped ==
    [][\A i \in OrderIds :
          (orders[i].state = "Cancelled" /\ i \in RestingIds(bids) \cup RestingIds(asks))
          => /\ orders'[i].filled_quantity = orders[i].filled_quantity
             /\ orders'[i].remaining_quantity = orders[i].remaining_quantity
             /\ ~(TradeStep /\ LastTrade.maker_order_id = i)]_vars

\* C4: conservation: in a submit_order call the trade quantities sum to the
\* increase of the taker's filled quantity, and for every maker the quantities
\* of the trades naming it sum to the increase of its filled quantity.
C4_Conservation ==
    SubmitInFlight =>
        \A i \in OrderIds :
            orders[i].filled_quantity - filled_before[i]
              = IF i = taker THEN TradedAs(trades, "taker_order_id", i)
                ELSE TradedAs(trades, "maker_order_id", i)

C4_Witness ==
    /\ SubmitInFlight
    /\ pc = "return"
    /\ Len(trades) >= 2
    /\ trades[1].maker_order_id # trades[2].maker_order_id

\* C5: every trade has quantity > 0 and at most min(taker remaining, maker
\* remaining) as they were before the trade, and its maker rests on the side
\* opposite to the taker's side.
C5_TradeBounds ==
    [][TradeStep =>
         LET tr == LastTrade
             mk == orders[tr.maker_order_id]
             tk == orders[tr.taker_order_id]
         IN /\ tr.quantity > 0
            /\ tr.quantity <= mk.remaining_quantity
            /\ tr.quantity <= tk.remaining_quantity
            /\ mk.side # tk.side
            /\ tr.maker_order_id \in
                 (IF tk.side = "Buy" THEN RestingIds(asks) ELSE RestingIds(bids))]_vars

C5_Witness ==
    /\ trades # <<>>
    /\ trades[Len(trades)].quantity < orders[taker].quantity
    /\ orders[trades[Len(trades)].maker_order_id].remaining_quantity > 0

\* C6: every trade is executed at the maker's limit price; for a limit taker
\* that price is never worse than its limit; a taker without a price crosses
\* every price of the book it is matched against.
C6_MakerPrice ==
    [][/\ TradeStep =>
            LET tr == LastTrade
                mk == orders[tr.maker_order_id]
                tk == orders[tr.taker_order_id]
            IN /\ tr.price = Unwrap(mk.price)
               /\ tk.price # None =>
                    IF tk.side = "Buy" THEN tr.price <= Unwrap(tk.price)
                    ELSE tr.price >= Unwrap(tk.price)
       /\ (pc = "match" /\ orders[taker].price = None) =>
            \A k \in DOMAIN (IF orders[taker].side = "Buy" THEN asks ELSE bids) :
                prices_cross(orders[taker], k)]_vars

C6_Witness ==
    /\ trades # <<>>
    /\ orders[taker].price # None
    /\ orders[taker].side = "Buy"
    /\ trades[1].price < Unwrap(orders[taker].price)

\* C7: within one match_order call every trade is made at the best price level
\* of the opposite side at that moment (lowest ask for a Buy taker, highest bid
\* for a Sell taker), the trade prices of a Buy taker never decrease and those
\* of a Sell taker never increase, and the loop ends at a best level whose
\* price does not cross.
C7_PricePriority ==
    [][/\ TradeStep =>
            LET tr == LastTrade
                tk == orders[tr.taker_order_id]
            IN IF tk.side = "Buy"
               THEN /\ \A k \in DOMAIN asks : tr.price <= k
                    /\ trades # <<>> => trades[Len(trades)].price <= tr.price
               ELSE /\ \A k \in DOMAIN bids : tr.price >= k
                    /\ trades # <<>> => trades[Len(trades)].price >= tr.price
       /\ (/\ pc = "match"
           /\ orders[taker].remaining_quantity > 0
           /\ orders[taker].price # None
           /\ IF orders[taker].side = "Buy"
              THEN DOMAIN asks # {}
                   /\ Unwrap(orders[taker].price) < SetMin(DOMAIN asks)
              ELSE DOMAIN bids # {}
                   /\ Unwrap(orders[taker].price) > SetMax(DOMAIN bids))
          => pc' = "finish" /\ trades' = trades /\ orders' = orders]_vars

C7_Witness ==
    /\ Len(trades) >= 2
    /\ trades[1].price # trades[2].price

\* C8: under PriceTime the makers of a level are consumed from the head of its
\* FIFO queue: a trade is made with the order at the head, for min(taker
\* remaining, maker remaining), and an order leaves the head for good only
\* with zero remaining.
C8_FifoWithinLevel ==
    [][algorithm.name = "PriceTime" =>
         /\ TradeStep =>
              LET tr == LastTrade
                  mk == orders[tr.maker_order_id]
                  tk == orders[tr.taker_order_id]
                  opp == IF tk.side = "Buy" THEN asks ELSE bids
              IN /\ opp[tr.price].orders[1] = tr.maker_order_id
                 /\ tr.quantity = IF tk.remaining_quantity <= mk.remaining_quantity
                                  THEN tk.remaining_quantity
                                  ELSE mk.remaining_quantity
         /\ \A i \in OrderIds :
              LET before == RestingIds(bids) \cup RestingIds(asks)
                  after == RestingIds(bids') \cup RestingIds(asks')
              IN (i \in before /\ i \notin after) => orders'[i].remaining_quantity = 0]_vars

C8_Witness ==
    /\ algorithm.name = "PriceTime"
    /\ Len(trades) >= 2
    /\ trades[1].price = trades[2].price
    /\ trades[1].maker_order_id # trades[2].maker_order_id

\* C9: under PriceTime a maker that is only partially filled keeps its time
\* priority: it is put back at the head of its level's queue.
C9_PartialFillKeepsPriority ==
    [][(algorithm.name = "PriceTime" /\ TradeStep) =>
         LET tr == LastTrade
             tk == orders[tr.taker_order_id]
             oppAfter == IF tk.side = "Buy" THEN asks' ELSE bids'
         IN orders'[tr.maker_order_id].remaining_quantity > 0
            => oppAfter[tr.price].orders[1] = tr.maker_order_id]_vars

\* C10: after any sequence of completed submit_order and cancel_order calls,
\* whenever both sides of the book are non-empty the best bid is <= the best ask.
C10_BookNotCrossed ==
    (pc = "idle" /\ DOMAIN bids # {} /\ DOMAIN asks # {})
        => SetMax(DOMAIN bids) <= SetMin(DOMAIN asks)

\* a step that is a whole cancel_order(id) call
CancelStep(id) == pc = "idle" /\ op' = <<"cancel", id>>

\* a step that starts submit_order for a new order, and that order's id
SubmitStep == pc = "idle" /\ Len(orders') = Len(orders) + 1
NewId == Len(orders')

\* the step of submit_order that follows match_order
FinishStep == pc = "finish" /\ pc' = "return"

EventTypes(es) == [i \in 1..Len(es) |-> es[i].type]

OwnLevelsAfter(o) == IF o.side = "Buy" THEN bids' ELSE asks'

\* C14: cancel_order is idempotent. A cancel_order(id) that returns
\* OrderCancelled removes id from the cancel index; an id of a submitted order
\* that is not in the index never enters it again; and cancel_order(id) for an
\* id that is not in the index (cancelled before, or never rested) returns
\* None, emits no event and changes no order and no book state.
C14_CancelIdempotent ==
    [][\A id \in 0..Len(orders) :
          /\ (CancelStep(id) /\ result' = "Some") => id \notin order_index'
          /\ (id >= 1 /\ id # taker /\ id \notin order_index) => id \notin order_index'
          /\ (CancelStep(id) /\ id \notin order_index)
               => /\ result' = "None"
                  /\ events' = <<>>
                  /\ UNCHANGED <<orders, bids, asks, order_index, sequence_counter>>]_vars

C14_Witness ==
    /\ pc = "return"
    /\ op # <<>>
    /\ op[1] = "cancel"
    /\ op[2] >= 1
    /\ result = "None"
    /\ orders[op[2]].order_type = "Limit"
    /\ orders[op[2]].state = "Cancelled"

\* C16: submit_order never panics: every call returns an event batch.
C16_NoPanic == result # "panic"

\* C17: a submission that fails validation (quantity <= 0, limit order without
\* a price, limit order with price <= 0) sets the order's state to Rejected,
\* returns exactly OrderReceived then OrderRejected, leaves both book sides,
\* the cancel index and the sequence counter unchanged, and attempts no match.
C17_RejectedSubmission ==
    [][(/\ SubmitStep
        /\ LET o == orders'[NewId]
           IN \/ o.quantity <= 0
              \/ o.order_type = "Limit" /\ o.price = None
              \/ o.order_type = "Limit" /\ o.price # None /\ Unwrap(o.price) <= 0)
       => /\ orders'[NewId].state = "Rejected"
          /\ EventTypes(events') = <<"OrderReceived", "OrderRejected">>
          /\ result' = "events"
          /\ pc' = "return"
          /\ trades' = trades
          /\ UNCHANGED <<bids, asks, order_index, sequence_counter>>
          /\ \A i \in OrderIds : orders'[i] = orders[i]]_vars

C17_Witness ==
    /\ pc = "return"
    /\ SubmitInFlight
    /\ orders[taker].state = "Rejected"
    /\ orders[taker].quantity > 0
    /\ DOMAIN bids # {}
    /\ DOMAIN asks = {}

\* C18: an engine built from a configuration with a tick size and a lot size
\* rejects every order whose price is not a multiple of the tick size or whose
\* quantity is not a multiple of the lot size.
C18_TickAndLotEnforced ==
    \A i \in OrderIds :
        (/\ orders[i].state # "Pending"
         /\ \/ orders[i].price # None /\ Unwrap(orders[i].price) % Unwrap(tick_size) # 0
            \/ orders[i].quantity % Unwrap(lot_size) # 0)
        => orders[i].state = "Rejected"

\* C19: an ImmediateOrCancel order is never left on the book: when matching
\* leaves it with remaining > 0, submit_order sets it Cancelled, emits
\* OrderCancelled and adds it neither to its side's ladder nor to the index.
C19_IocNeverRests ==
    [][(/\ FinishStep
        /\ orders[taker].time_in_force = "ImmediateOrCancel"
        /\ orders[taker].price # None
        /\ orders[taker].remaining_quantity > 0)
       => /\ orders'[taker].state = "Cancelled"
          /\ events'[Len(events')].type = "OrderCancelled"
          /\ taker \notin RestingIds(bids') \cup RestingIds(asks')
          /\ taker \notin order_index']_vars

\* C20: a GoodTillDate order is handled like a GoodTillCancel order: when
\* matching leaves it with remaining > 0, partially filled or unfilled, it is
\* added to its own side at its limit price, entered in the cancel index, and
\* OrderAddedToBook is emitted.
C20_GtdRestsLikeGtc ==
    [][(/\ FinishStep
        /\ orders[taker].time_in_force = "GoodTillDate"
        /\ orders[taker].order_type = "Limit"
        /\ orders[taker].remaining_quantity > 0)
       => LET o == orders[taker]
              own == OwnLevelsAfter(o)
          IN /\ Unwrap(o.price) \in DOMAIN own
             /\ taker \in RestingIds(own)
             /\ taker \in order_index'
             /\ events'[Len(events')].type = "OrderAddedToBook"]_vars

\* the try_fill calls on orders[1], by how far they have come
IsFillCall(c) == fill_calls[c].quantity > 0
FillsTakenEffect ==
    {c \in FillCallIds : IsFillCall(c) /\ (fill_calls[c].pc \in {"add", "store"}
                                            \/ fill_calls[c].ret = "true")}
FillsCredited ==
    {c \in FillCallIds : IsFillCall(c) /\ (fill_calls[c].pc = "store"
                                            \/ fill_calls[c].ret = "true")}

RECURSIVE SumFillCalls(_)
SumFillCalls(S) ==
    IF S = {} THEN 0
    ELSE LET c == CHOOSE x \in S : TRUE
         IN fill_calls[c].quantity + SumFillCalls(S \ {c})

\* the try_cancel calls on orders[1] that returned true
CancelsSucceeded ==
    {c \in FillCallIds : ~IsFillCall(c) /\ fill_calls[c].ret = "true"}

\* C13: under any interleaving of try_fill calls on one order, a call with
\* quantity q takes effect only if remaining >= q at that moment and lowers
\* remaining by exactly q; every call that has returned true has raised filled
\* by its q; the successful fills never sum to more than the original
\* quantity; and a call that returns false changes nothing of the order.
C13_ConcurrentFills ==
    [][/\ orders[1].remaining_quantity
            = orders[1].quantity - SumFillCalls(FillsTakenEffect)
       /\ orders[1].filled_quantity = SumFillCalls(FillsCredited)
       /\ SumFillCalls(FillsTakenEffect) <= orders[1].quantity
       /\ \A c \in FillCallIds :
            /\ (fill_calls[c].pc = "cas" /\ fill_calls'[c].pc = "add")
                 => /\ orders[1].remaining_quantity >= fill_calls[c].quantity
                    /\ orders'[1].remaining_quantity
                         = orders[1].remaining_quantity - fill_calls[c].quantity
            /\ (IsFillCall(c) /\ fill_calls'[c] # fill_calls[c]
                /\ fill_calls[c].pc \in {"load", "cas"}
                /\ fill_calls'[c].pc \in {"load", "cas", "done"})
                 => orders' = orders
            /\ (IsFillCall(c) /\ fill_calls'[c].ret = "false")
                 => c \notin FillsTakenEffect]_vars

C13_Witness ==
    \E c1, c2, c3 \in FillCallIds :
        /\ c1 # c2
        /\ IsFillCall(c1) /\ fill_calls[c1].ret = "true"
        /\ IsFillCall(c2) /\ fill_calls[c2].ret = "true"
        /\ IsFillCall(c3) /\ fill_calls[c3].ret = "false"
        /\ orders[1].remaining_quantity > 0

\* C15: for an order in state Accepted, among any number of try_cancel calls,
\* interleaved with any other operations on the order, exactly one returns
\* true (and try_cancel on a Filled order returns false and leaves it Filled).
C15_CancelExactlyOnce ==
    /\ Cardinality(CancelsSucceeded) <= 1
    /\ \A c \in FillCallIds :
          (/\ ~IsFillCall(c)
           /\ fill_calls[c].ret = "false"
           /\ fill_calls[c].current = "Filled")
          => orders[1].state = "Filled"

\* the orders that passed validation and were given a sequence number
AcceptedIds == {i \in OrderIds : orders[i].state \notin {"Pending", "Rejected"}}

\* the orders whose submit_order call has not returned
InSubmit == {submit_calls[t].order : t \in {u \in DOMAIN submit_calls :
                                                 submit_calls[u].pc # "idle"}}

\* C11: for accepted orders O1, O2 with sequence numbers s1 < s2, every trade
\* whose taker is O1 is created no later than every trade whose taker is O2,
\* also when the two submit_order calls run concurrently: read along the log of
\* trades in creation order, the takers' sequence numbers never decrease
C11_TakersInSequenceOrder ==
    \A i, j \in 1..Len(trades) :
        i < j => orders[trades[i].taker_order_id].sequence_number
                 <= orders[trades[j].taker_order_id].sequence_number

\* C12: sequence numbers of accepted orders are strictly monotone per engine:
\* no two accepted orders share a number, the step that accepts an order gives
\* it a number larger than that of every order accepted before (so also than
\* that of every order whose call has already returned), and rejected orders
\* consume no number: the counter equals the number of accepted orders and a
\* step that rejects an order leaves the counter alone
C12_SequenceMonotone ==
    [][ /\ \A i, j \in AcceptedIds' :
              i # j => orders'[i].sequence_number # orders'[j].sequence_number
        /\ \A n \in AcceptedIds' \ AcceptedIds :
              \A i \in AcceptedIds :
                  orders'[n].sequence_number > orders[i].sequence_number
        /\ sequence_counter' = Cardinality(AcceptedIds')
        /\ (Len(orders') > Len(orders) /\ orders'[Len(orders')].state = "Rejected")
              => sequence_counter' = sequence_counter ]_vars

\* two orders accepted by calls that overlap, after an order was rejected
C12_Witness ==
    \E r, i, j \in OrderIds :
        /\ orders[r].state = "Rejected"
        /\ i \in AcceptedIds \cap InSubmit
        /\ j \in AcceptedIds \cap InSubmit
        /\ r < i /\ i < j
        /\ orders[i].sequence_number < orders[j].sequence_number
        /\ sequence_counter = Cardinality(AcceptedIds)

\* the aggregate quantity of the level at a price key, 0 when there is no level
AggregateAt(levels, key) ==
    IF key \in DOMAIN levels THEN levels[key].total_quantity ELSE 0

\* C21: a GoodTillCancel limit order left with remaining > 0 after matching
\* rests on its own side at its limit price: the aggregate of that level grows
\* by exactly the order's remaining quantity, the order is queued there and
\* entered in the cancel index, the batch ends with an OrderAddedToBook that
\* reports the price and the remaining quantity, and an order that was filled
\* in part is in state PartiallyFilled.
C21_GtcRemainderRests ==
    [][(/\ FinishStep
        /\ orders[taker].order_type = "Limit"
        /\ orders[taker].time_in_force = "GoodTillCancel"
        /\ orders[taker].remaining_quantity > 0)
       => LET o == orders[taker]
              key == Unwrap(o.price)
              own == OwnLevels(o.side)
              after == OwnLevelsAfter(o)
              last == events'[Len(events')]
          IN /\ key \in DOMAIN after
             /\ after[key].price = key
             /\ after[key].total_quantity
                  = AggregateAt(own, key) + o.remaining_quantity
             /\ after[key].orders # <<>>
             /\ after[key].orders[Len(after[key].orders)] = taker
             /\ \A k \in DOMAIN after \ {key} : k \in DOMAIN own /\ after[k] = own[k]
             /\ OppositeLevels(o.side)' = OppositeLevels(o.side)
             /\ order_index' = order_index \cup {taker}
             /\ last.type = "OrderAddedToBook"
             /\ last.order_id = taker
             /\ last.price = key
             /\ last.quantity = o.remaining_quantity
             /\ orders' = orders
             /\ o.filled_quantity > 0 => o.state = "PartiallyFilled"
             /\ o.filled_quantity = 0 => o.state = "Accepted"]_vars

\* a partially filled GoodTillCancel order has just been rested
C21_Witness ==
    /\ pc = "return"
    /\ SubmitInFlight
    /\ orders[taker].time_in_force = "GoodTillCancel"
    /\ orders[taker].state = "PartiallyFilled"
    /\ orders[taker].remaining_quantity > 0
    /\ Len(trades) >= 1
    /\ taker \in order_index
    /\ LET own == OwnLevels(orders[taker].side)
           key == Unwrap(orders[taker].price)
       IN /\ key \in DOMAIN own
          /\ own[key].orders # <<>>
          /\ own[key].orders[Len(own[key].orders)] = taker
    /\ events[Len(events)].type = "OrderAddedToBook"

\* the fill-status / disposition groups that may end a batch
DispositionGroups ==
    {<<"OrderFilled">>, <<"OrderPartiallyFilled", "OrderAddedToBook">>,
     <<"OrderPartiallyFilled", "OrderCancelled">>, <<"OrderAddedToBook">>}

\* C22: the batch a submit_order call returns starts with OrderReceived; then
\* it is either OrderRejected and nothing else, or OrderAccepted, one
\* OrderMatched per trade in trade order, and exactly one group out of
\* OrderFilled / OrderPartiallyFilled then OrderAddedToBook or OrderCancelled /
\* OrderAddedToBook alone.
C22_EventOrder ==
    (pc = "return" /\ SubmitInFlight /\ result = "events") =>
        LET types == EventTypes(events)
            n == Len(trades)
        IN /\ Len(types) >= 2
           /\ types[1] = "OrderReceived"
           /\ \/ types = <<"OrderReceived", "OrderRejected">>
              \/ /\ types[2] = "OrderAccepted"
                 /\ Len(types) > 2 + n
                 /\ \A i \in 1..n : /\ types[2 + i] = "OrderMatched"
                                    /\ events[2 + i].trade = trades[i]
                 /\ SubSeq(types, 3 + n, Len(types)) \in DispositionGroups

\* the ids of a queue whose orders have remaining >= minimum_quantity, in
\* queue order
RECURSIVE EligibleIds(_, _)
EligibleIds(queue, minimum_quantity) ==
    IF queue = <<>> THEN <<>>
    ELSE IF orders[Head(queue)].remaining_quantity >= minimum_quantity
         THEN <<Head(queue)>> \o EligibleIds(Tail(queue), minimum_quantity)
         ELSE EligibleIds(Tail(queue), minimum_quantity)

\* floor(r * q / total) on raw values
FloorShare(r, q, total) == CHOOSE f \in 0..q : f * total <= r * q /\ r * q < (f + 1) * total

\* the quantity the allocation list gives to an order
AllocationOf(allocs, id) ==
    LET hits == {i \in 1..Len(allocs) : allocs[i].order_id = id}
    IN IF hits = {} THEN 0 ELSE allocs[SetMin(hits)].qty

\* the level step of the allocation specification has been taken
Allocated == pc = "exec" /\ best_level # None /\ taker = 0

\* C23: under ProRata, with the eligible orders (remaining >= minimum_quantity)
\* taken in queue order with remainings r_1..r_n and quantity q to fill, order i
\* is allocated floor(r_i * q / (r_1 + ... + r_n)) on raw values, the first
\* eligible order gets in addition q minus the sum of the floors, the
\* allocations sum to q, and orders below minimum_quantity get nothing.
C23_ProRataAllocation ==
    [][(pc = "idle" /\ pc' = "exec" /\ taker = 0 /\ algorithm.name = "ProRata") =>
         LET queue == bids[Unwrap(best_level)].orders
             q == remaining_to_fill'
             elig == EligibleIds(queue, algorithm.minimum_quantity)
             n == Len(elig)
             r(i) == orders[elig[i]].remaining_quantity
             total == SumRemaining(orders, elig)
             floor(i) == FloorShare(r(i), q, total)
             floors == [i \in 1..n |-> [qty |-> floor(i)]]
         IN IF n = 0 THEN allocations' = <<>>
            ELSE /\ Len(allocations') = n
                 /\ \A i \in 1..n :
                      /\ allocations'[i].order_id = elig[i]
                      /\ allocations'[i].qty =
                           floor(i) + (IF i = 1 THEN q - SumQty(floors) ELSE 0)
                 /\ SumQty(allocations') = q
                 /\ \A id \in OrderIds :
                      orders[id].remaining_quantity < algorithm.minimum_quantity
                        => AllocationOf(allocations', id) = 0]_vars

\* three orders, one of them below the minimum, and a rounding remainder
C23_Witness ==
    /\ Allocated
    /\ algorithm.minimum_quantity > 0
    /\ Len(orders) = MaxLevelOrders
    /\ Len(allocations) = 2
    /\ allocations[1].qty * SumRemaining(orders, <<allocations[1].order_id,
                                                   allocations[2].order_id>>)
         > orders[allocations[1].order_id].remaining_quantity * remaining_to_fill
    /\ SumQty(allocations) = remaining_to_fill

\* C24: pro-rata fairness bound: for two eligible orders a and b of one level
\* with remainings r_a and r_b, their allocations (rounding remainder included)
\* satisfy |A_a * r_b - A_b * r_a| <= max(r_a, r_b).
C24_FairnessBound ==
    (Allocated /\ algorithm.name = "ProRata") =>
        \A a, b \in OrderIds :
            (/\ orders[a].remaining_quantity >= algorithm.minimum_quantity
             /\ orders[b].remaining_quantity >= algorithm.minimum_quantity)
            => LET r_a == orders[a].remaining_quantity
                   r_b == orders[b].remaining_quantity
                   d == AllocationOf(allocations, a) * r_b
                          - AllocationOf(allocations, b) * r_a
               IN /\ d <= (IF r_a >= r_b THEN r_a ELSE r_b)
                  /\ -d <= (IF r_a >= r_b THEN r_a ELSE r_b)

\* the remaining quantity queued on the side opposite to the order o at prices
\* that cross o's limit
RECURSIVE CrossingLiquidity(_, _, _)
CrossingLiquidity(o, levels, keys) ==
    IF keys = {} THEN 0
    ELSE LET k == CHOOSE x \in keys : TRUE
         IN (IF prices_cross(o, levels[k].price)
             THEN SumRemaining(orders, levels[k].orders) ELSE 0)
            + CrossingLiquidity(o, levels, keys \ {k})

\* C25: for every policy with minimum_quantity 0, when match_order has returned
\* either the taker has remaining 0 and its trades sum to its quantity (the
\* crossing liquidity was enough), or nothing is left of the crossing liquidity:
\* the quantity still queued at crossing prices plus the quantity traded is what
\* was there when the call started.
C25_NoStrandedQuantity ==
    (pc = "finish" /\ algorithm.minimum_quantity = 0) =>
        LET o == orders[taker]
            opp == OppositeLevels(o.side)
            left == CrossingLiquidity(o, opp, DOMAIN opp)
            traded == TradedAs(trades, "taker_order_id", taker)
        IN IF left + traded >= o.quantity
           THEN o.remaining_quantity = 0 /\ traded = o.quantity
           ELSE left = 0 /\ traded + o.remaining_quantity = o.quantity

\* an allocation policy fills a taker in several trades although one
\* allocation was clamped to its maker's remaining quantity
C25_Witness ==
    /\ pc = "finish"
    /\ algorithm.minimum_quantity = 0
    /\ algorithm.name # "PriceTime"
    /\ orders[taker].remaining_quantity = 0
    /\ Len(trades) >= 2
    /\ \E i \in 1..Len(trades) : trades[i].quantity % QtyOne # 0

\* C26: under ProRataTobFifo, in each level step the order at the head of the
\* level's queue is allocated min(taker remaining, head remaining) whatever
\* minimum_quantity is, the other allocations go to other orders of the level
\* with remaining >= minimum_quantity and sum to at most what is left, and the
\* first fill of the level step is that of the head order, for that quantity.
C26_TopOfBookFirst ==
    [][algorithm.name = "ProRataTobFifo" =>
         LET t == orders[taker]
             opp == OppositeLevels(t.side)
         IN /\ (pc = "match" /\ pc' = "exec") =>
                  LET queue == opp[Unwrap(best_level')].orders
                      head == queue[1]
                      first == Min(t.remaining_quantity,
                                   orders[head].remaining_quantity)
                      others == Tail(allocations')
                  IN /\ allocations'[1] = [order_id |-> head, qty |-> first]
                     /\ first > 0
                     /\ \A i \in 1..Len(others) :
                          /\ others[i].order_id # head
                          /\ others[i].order_id \in
                               {queue[k] : k \in 2..Len(queue)}
                          /\ orders[others[i].order_id].remaining_quantity
                               >= algorithm.minimum_quantity
                     /\ SumQty(others) <= t.remaining_quantity - first
                     /\ others # <<>> =>
                          SumQty(others) = t.remaining_quantity - first
            /\ (/\ pc = "exec"
                /\ allocations # <<>>
                /\ t.remaining_quantity = remaining_to_fill)
               => /\ TradeStep
                  /\ LastTrade.maker_order_id = Head(allocations).order_id
                  /\ LastTrade.quantity = Head(allocations).qty]_vars

\* a head order below minimum_quantity was filled first and the rest of the
\* taker went to another order of the level
C26_Witness ==
    /\ algorithm.name = "ProRataTobFifo"
    /\ algorithm.minimum_quantity > 0
    /\ SubmitInFlight
    /\ Len(trades) = 2
    /\ orders[trades[1].maker_order_id].quantity < algorithm.minimum_quantity
    /\ orders[trades[1].maker_order_id].remaining_quantity = 0
    /\ trades[2].maker_order_id # trades[1].maker_order_id
    /\ trades[1].price = trades[2].price

\* the remaining quantity an order had when the call in flight started
RemainingBefore(i) == orders[i].quantity - filled_before[i]

\* the eligible LMM orders the taker of the call in flight met in the book
LmmMakers ==
    {i \in OrderIds \ {taker} :
        /\ orders[i].side # orders[taker].side
        /\ is_lmm(algorithm, orders[i].user_id)
        /\ RemainingBefore(i) > 0
        /\ RemainingBefore(i) >= algorithm.minimum_quantity}

\* C27: LMM floor: under LmmPriority with fraction p, for a level whose
\* eligible LMM orders have total remaining S_lmm and a taker with remaining q
\* at the start of the level step, the quantity traded with LMM accounts in
\* that level step is at least min(floor(q * p), S_lmm). Stated at the end of
\* the first level step of a call on a book with one price level: q is the
\* taker's quantity and the trades of the call are the trades of the step.
C27_LmmFloor ==
    (/\ pc = "sweep"
     /\ algorithm.name = "LmmPriority"
     /\ remaining_to_fill = orders[taker].quantity) =>
        LET ids == SortedKeys(LmmMakers)
            before == [i \in 1..Len(ids) |-> [qty |-> RemainingBefore(ids[i])]]
            traded == [i \in 1..Len(ids) |->
                         [qty |-> TradedAs(trades, "maker_order_id", ids[i])]]
        IN SumQty(traded) >= Min(LmmAllocationQty(algorithm, remaining_to_fill),
                                 SumQty(before))

\* C28: threshold protection: under ThresholdProRata, whenever a maker receives
\* a fill, no small order (remaining below the threshold) that arrived earlier
\* is still waiting in the level's queue, and when the maker is a large order
\* no small order at all is still waiting there. The waiting orders compared
\* are those the call in flight has not traded with, so their remaining
\* quantity is the one every allocation of the call saw.
C28_ThresholdFifo ==
    [][(algorithm.name = "ThresholdProRata" /\ TradeStep) =>
        LET m == LastTrade.maker_order_id
            level == OppositeLevels(orders[taker].side)[Unwrap(best_level)]
            waiting == {level.orders[i] : i \in 1..Len(level.orders)} \ {m}
            Small(id) == orders[id].remaining_quantity < algorithm.threshold
        IN \A s \in waiting :
              ~(/\ Small(s)
                /\ TradedAs(trades, "maker_order_id", s) = 0
                /\ (~Small(m) \/ s < m))]_vars

\* create_from_config: the engine is built from the configuration's instrument
\* and matching algorithm; order_book_type is not handed to MatchingEngine::new
create_from_config(config) == config.matching_algorithm

\* OrderBookSide::get_depth: the first num_levels levels from the best price,
\* each as <<price, total_quantity>>
get_depth(side, levels, num_levels) ==
    LET keys == SortedKeys(DOMAIN levels)
        ordered == IF side = "Buy" THEN Reverse(keys) ELSE keys
    IN [i \in 1..Min(num_levels, Len(ordered)) |->
           <<levels[ordered[i]].price, levels[ordered[i]].total_quantity>>]

\* MatchingEngine::get_snapshot
get_snapshot(depth) ==
    [bids |-> get_depth("Buy", bids, depth), asks |-> get_depth("Sell", asks, depth)]

\* C29: for an engine created from a configuration whose order_book_type is
\* DarkPool, get_snapshot returns empty bid and ask ladders in every book
\* state, whatever orders are resting.
C29_DarkPoolSnapshotEmpty ==
    \A a \in Algorithms : \A depth \in 1..MaxPrice :
        LET config == [order_book_type |-> "DarkPool", matching_algorithm |-> a]
        IN algorithm = create_from_config(config) =>
              /\ get_snapshot(depth).bids = <<>>
              /\ get_snapshot(depth).asks = <<>>

\* C30: when no submit_order or cancel_order is in flight, for every price
\* level under every policy the level's aggregate quantity equals the sum of
\* the remaining quantities of the orders in that level's queue; and the
\* aggregate is never negative at any time.
C30_LevelAggregate ==
    \A levels \in {bids, asks} : \A k \in DOMAIN levels :
        /\ levels[k].total_quantity >= 0
        /\ pc = "idle" =>
              levels[k].total_quantity = SumRemaining(orders, levels[k].orders)

C30_Witness ==
    /\ pc = "idle"
    /\ \E levels \in {bids, asks} : \E k \in DOMAIN levels :
          /\ Len(levels[k].orders) >= 2
          /\ \E i \in 1..Len(levels[k].orders) :
                orders[levels[k].orders[i]].filled_quantity > 0

\* ------------------------------------------------------------------------
\* platform/simd: the crossing finders over raw i64 prices
\* ------------------------------------------------------------------------
\* ScalarMatcher::find_crossing_buy_prices / find_crossing_sell_prices: the
\* 0-based indices, in iteration order, of the prices the given price crosses
scalar_find_crossing(side, price, prices) ==
    LET Crosses(idx) == IF side = "Buy" THEN price >= prices[idx + 1]
                        ELSE price <= prices[idx + 1]
    IN SelectSeq([i \in 1..Len(prices) |-> i - 1], Crosses)

\* the chunked part of a vectorised finder alone
simd_without_remainder(lanes, side, price, prices) ==
    LET base_idx == Len(prices) - (Len(prices) % lanes)
        InChunks(idx) == idx < base_idx
    IN SelectSeq(scalar_find_crossing(side, price, prices), InChunks)

\* neon_find_crossing_* (2 lanes), avx2_find_crossing_* (4 lanes) and
\* avx512_find_crossing_* (8 lanes): chunks_exact(lanes), one comparison mask
\* per chunk, the lanes of the mask in ascending order, then the remainder
\* with scalar code
simd_find_crossing(lanes, side, price, prices) ==
    LET n_chunks == Len(prices) \div lanes
        \* AVX2 has no >= on i64: NOT(ask > buy), NOT(sell > bid); NEON and
        \* AVX-512 compare with vcgeq / vcleq and cmpge / cmple
        Lane(p) == IF lanes = 4
                   THEN (IF side = "Buy" THEN ~(p > price) ELSE ~(price > p))
                   ELSE (IF side = "Buy" THEN price >= p ELSE price <= p)
        Mask(chunk) ==
            LET m[i \in 0..lanes] ==
                    IF i = 0 THEN 0
                    ELSE m[i - 1] + (IF Lane(chunk[i]) THEN 2 ^ (i - 1) ELSE 0)
            IN m[lanes]
        ChunkIndices(chunk_idx) ==
            LET chunk == SubSeq(prices, chunk_idx * lanes + 1, (chunk_idx + 1) * lanes)
                mask == Mask(chunk)
                base == chunk_idx * lanes
                BitSet(i) == (mask \div (2 ^ i)) % 2 # 0
                hits == SelectSeq([i \in 1..lanes |-> i - 1], BitSet)
            IN [k \in 1..Len(hits) |-> base + hits[k]]
        chunks[chunk_idx \in 0..n_chunks] ==
            IF chunk_idx = n_chunks THEN <<>>
            ELSE ChunkIndices(chunk_idx) \o chunks[chunk_idx + 1]
        base_idx == Len(prices) - (Len(prices) % lanes)
        remainder == SubSeq(prices, base_idx + 1, Len(prices))
        tail == scalar_find_crossing(side, price, remainder)
    IN chunks[0] \o [k \in 1..Len(tail) |-> base_idx + tail[k]]

\* one call of a vectorised finder: a price below, between and equal to the
\* prices of an array of up to MaxSimdLen prices
InitSimd ==
    /\ algorithm = Algorithm("PriceTime", TRUE, 0, 0, {}, 0, 1)
    /\ orders = <<>>
    /\ bids = <<>>
    /\ asks = <<>>
    /\ order_index = {}
    /\ sequence_counter = 0
    /\ pc = "idle"
    /\ op = <<>>
    /\ taker = 0
    /\ best_level = None
    /\ allocations = <<>>
    /\ remaining_to_fill = 0
    /\ trades = <<>>
    /\ events = <<>>
    /\ result = "none"
    /\ filled_before = <<>>
    /\ fill_calls = <<>>
    /\ submit_calls = <<>>
    /\ detached_levels = <<>>
    /\ args \in [lanes : {2, 4, 8}, side : Sides, price : {-1, 0, 1},
                 prices : UNION {[1..n -> {-1, 1}] : n \in 0..MaxSimdLen}]
    /\ ret = None

FindCrossing ==
    /\ ret = None
    /\ ret' = Some(simd_find_crossing(args.lanes, args.side, args.price, args.prices))
    /\ UNCHANGED <<algorithm, args, orders, bids, asks, order_index, sequence_counter,
                   pc, op, taker, best_level, allocations, remaining_to_fill, trades,
                   events, result, filled_before, fill_calls, submit_calls,
                   detached_levels>>

SpecSimd == InitSimd /\ [][FindCrossing]_vars

\* C31: SIMD agreement: for every price and every price array of any length,
\* each vectorised crossing finder returns exactly the index list of the
\* scalar implementation, in ascending order.
C31_SimdAgreement ==
    ret # None =>
        /\ Unwrap(ret) = scalar_find_crossing(args.side, args.price, args.prices)
        /\ \A i, j \in 1..Len(Unwrap(ret)) : i < j => Unwrap(ret)[i] < Unwrap(ret)[j]

C31_Witness ==
    /\ ret # None
    /\ args.lanes = 8
    /\ Len(args.prices) = 9
    /\ Unwrap(ret) = <<1, 8>>

\* ------------------------------------------------------------------------
\* numeric/fixed_decimal.rs: Display and FromStr
\* ------------------------------------------------------------------------
\* impl Display for FixedDecimal: the text as a sequence of characters; the
\* integer part is self.0 / SCALE (truncating), the fractional part
\* (self.0 % SCALE).unsigned_abs(), written with {:0>width$}
Display_fmt(raw) ==
    LET magnitude == IF raw < 0 THEN -raw ELSE raw
        int_part == IF raw < 0 THEN -(magnitude \div SCALE) ELSE magnitude \div SCALE
        frac_part == magnitude % SCALE
        digits[n \in 0..magnitude] ==
            IF n < 10 THEN <<ToString(n)>> ELSE Append(digits[n \div 10], ToString(n % 10))
        zeros[k \in 0..DECIMALS] == IF k = 0 THEN <<>> ELSE Append(zeros[k - 1], "0")
        frac_digits == digits[frac_part]
        padded == zeros[DECIMALS - Min(DECIMALS, Len(frac_digits))] \o frac_digits
        int_text == IF int_part < 0 THEN <<"-">> \o digits[-int_part]
                    ELSE digits[int_part]
    IN IF DECIMALS = 0 THEN int_text
       ELSE IF raw < 0 /\ int_part = 0 THEN <<"-", "0", ".">> \o padded
       ELSE int_text \o <<".">> \o padded

\* impl FromStr for FixedDecimal, with from_parts and Neg: strip '-', split on
\* '.', parse the integer part as i64 and the fraction, right-padded with
\* zeros, as u64, combine with checked_mul / checked_add, then negate
from_str(s) ==
    LET is_negative == s # <<>> /\ Head(s) = "-"
        body == IF is_negative THEN Tail(s) ELSE s
        pos == IndexOf(body, ".")
        int_str == IF pos > 0 THEN SubSeq(body, 1, pos - 1) ELSE body
        frac_str == IF pos > 0 THEN Some(SubSeq(body, pos + 1, Len(body))) ELSE None
        Digit(c) == IndexOf(<<"0", "1", "2", "3", "4", "5", "6", "7", "8", "9">>, c) - 1
        AllDigits(t) == \A i \in 1..Len(t) : Digit(t[i]) >= 0
        \* str::parse of an unsigned digit string; -1 when it does not fit maximum
        parse(t, maximum) ==
            LET v[i \in 0..Len(t)] ==
                    IF i = 0 THEN 0
                    ELSE IF v[i - 1] < 0 THEN -1
                    ELSE IF v[i - 1] * 10 + Digit(t[i]) > maximum THEN -1
                    ELSE v[i - 1] * 10 + Digit(t[i])
            IN v[Len(t)]
        int_val == IF int_str = <<>> THEN 0 ELSE parse(int_str, I64_MAX)
        frac == IF frac_str = None THEN <<>> ELSE Unwrap(frac_str)
        padded == frac \o [k \in 1..(DECIMALS - Min(DECIMALS, Len(frac))) |-> "0"]
        frac_val == IF frac = <<>> THEN 0 ELSE parse(padded, 2 * I64_MAX + 1)
        int_scaled == int_val * SCALE
        combined == int_scaled + frac_val
    IN IF s = <<>> THEN [ok |-> FALSE, value |-> "InvalidInput"]
       ELSE IF ~AllDigits(int_str) \/ ~AllDigits(frac) THEN [ok |-> FALSE, value |-> "InvalidInput"]
       ELSE IF int_str # <<>> /\ int_val < 0 THEN [ok |-> FALSE, value |-> "InvalidInput"]
       ELSE IF Len(frac) > DECIMALS THEN [ok |-> FALSE, value |-> "PrecisionLoss"]
       ELSE IF frac_val < 0 \/ frac_val >= SCALE THEN [ok |-> FALSE, value |-> "InvalidInput"]
       ELSE IF int_scaled > I64_MAX THEN [ok |-> FALSE, value |-> "Overflow"]
       ELSE IF combined > I64_MAX THEN [ok |-> FALSE, value |-> "Overflow"]
       ELSE [ok |-> TRUE, value |-> IF is_negative THEN -combined ELSE combined]

\* every representable raw value
InitDecimal ==
    /\ algorithm = Algorithm("PriceTime", TRUE, 0, 0, {}, 0, 1)
    /\ orders = <<>>
    /\ bids = <<>>
    /\ asks = <<>>
    /\ order_index = {}
    /\ sequence_counter = 0
    /\ pc = "idle"
    /\ op = <<>>
    /\ taker = 0
    /\ best_level = None
    /\ allocations = <<>>
    /\ remaining_to_fill = 0
    /\ trades = <<>>
    /\ events = <<>>
    /\ result = "none"
    /\ filled_before = <<>>
    /\ fill_calls = <<>>
    /\ submit_calls = <<>>
    /\ detached_levels = <<>>
    /\ args \in I64_MIN..I64_MAX
    /\ ret = None

\* x.to_string().parse::<FixedDecimal>()
FormatParse ==
    /\ ret = None
    /\ ret' = Some(from_str(Display_fmt(args)))
    /\ UNCHANGED <<algorithm, args, orders, bids, asks, order_index, sequence_counter,
                   pc, op, taker, best_level, allocations, remaining_to_fill, trades,
                   events, result, filled_before, fill_calls, submit_calls,
                   detached_levels>>

SpecDecimal == InitDecimal /\ [][FormatParse]_vars

\* C32: FixedDecimal round-trip: for every representable raw value x, the
\* minimum and negative values with zero integer part included, parsing the
\* string produced by formatting x succeeds and yields x.
C32_RoundTrip ==
    ret # None => (Unwrap(ret).ok /\ Unwrap(ret).value = args)

\* C33: an add_order that runs concurrently with an empty-level sweep is never
\* lost: once every submit_order call has returned, an order that add_to_book
\* has put into the book and that has never been filled is still in a queue of
\* its side's ladder, where best_level and get_depth reach it.
C33_AddNotLost ==
    InSubmit = {} =>
        \A i \in order_index :
            orders[i].filled_quantity = 0 => i \in RestingIds(Ladder(orders[i].side))

\* ------------------------------------------------------------------------
\* ProRata::match_order called by two threads on one engine: each thread
\* submits one Buy order against a level of resting Sell orders. One step per
\* calculate_allocation, per iteration of the search loop and per sweep.
\* ------------------------------------------------------------------------
InitRace ==
    /\ algorithm \in {Algorithm("ProRata", FALSE, m, 0, {}, 0, 1) : m \in MinimumQuantities}
    /\ \E n \in 1..MaxRaceMakers : \E quantity \in [1..n -> Quantities] :
          /\ orders = [i \in 1..n |->
                         [NewOrder([side |-> "Sell", order_type |-> "Limit",
                                    price |-> Some(1), quantity |-> quantity[i],
                                    time_in_force |-> "GoodTillCancel",
                                    user_id |-> "user1"])
                          EXCEPT !.state = "Accepted", !.sequence_number = i - 1]]
          /\ asks = (1 :> [price |-> 1, orders |-> [i \in 1..n |-> i],
                           total_quantity |-> SumRemaining(orders, [i \in 1..n |-> i])])
          /\ order_index = 1..n
          /\ sequence_counter = n
    /\ bids = <<>>
    /\ pc = "idle"
    /\ op = <<>>
    /\ taker = 0
    /\ best_level = None
    /\ allocations = <<>>
    /\ remaining_to_fill = 0
    /\ trades = <<>>
    /\ events = <<>>
    /\ result = "none"
    /\ filled_before = <<>>
    /\ fill_calls = <<>>
    /\ submit_calls = [t \in SubmitCallIds |->
                         [pc |-> "idle", order |-> 0, level |-> None,
                          allocations |-> <<>>, remaining_to_fill |-> 0]]
    /\ detached_levels = <<>>
    /\ args = <<>>
    /\ ret = <<>>

\* submit_order up to match_order: the order is validated, numbered, Accepted
RaceSubmit(t) ==
    /\ submit_calls[t].pc = "idle"
    /\ \E quantity \in Quantities :
          LET o == NewOrder([side |-> "Buy", order_type |-> "Limit", price |-> Some(1),
                             quantity |-> quantity, time_in_force |-> "GoodTillCancel",
                             user_id |-> "user1"])
          IN orders' = Append(orders, [o EXCEPT !.state = "Accepted",
                                                !.sequence_number = sequence_counter])
    /\ sequence_counter' = sequence_counter + 1
    /\ submit_calls' = [submit_calls EXCEPT ![t].pc = "loop", ![t].order = Len(orders) + 1]
    /\ UNCHANGED <<algorithm, args, ret, bids, asks, order_index, pc, op, taker,
                   best_level, allocations, remaining_to_fill, trades, events, result,
                   filled_before, fill_calls, detached_levels>>

\* the head of the while loop of ProRata::match_order: loop condition,
\* best_level, prices_cross, calculate_allocation
RaceAllocate(t) ==
    /\ submit_calls[t].pc = "loop"
    /\ LET call == submit_calls[t]
           incoming == orders[call.order]
           best == best_price("Sell", asks)
           ca == calculate_allocation(orders, algorithm, asks[Unwrap(best)].orders,
                                      incoming.remaining_quantity)
       IN IF \/ incoming.remaining_quantity = 0
             \/ best = None
             \/ ~prices_cross(incoming, Unwrap(best))
          THEN /\ submit_calls' = [submit_calls EXCEPT ![t].pc = "finish"]
               /\ UNCHANGED asks
          ELSE /\ asks' = [asks EXCEPT ![Unwrap(best)].orders = ca.orders]
               /\ submit_calls' = [submit_calls EXCEPT ![t] =
                    [call EXCEPT !.pc = IF ca.allocations = <<>> THEN "finish" ELSE "exec",
                                 !.level = best,
                                 !.allocations = ca.allocations,
                                 !.remaining_to_fill = incoming.remaining_quantity]]
    /\ UNCHANGED <<algorithm, args, ret, orders, bids, order_index, sequence_counter, pc,
                   op, taker, best_level, allocations, remaining_to_fill, trades, events,
                   result, filled_before, fill_calls, detached_levels>>

\* "Execute allocations": the next allocation and one iteration of the loop
\* that searches the level's queue for its order id. A level that another
\* thread has removed from the ladder is empty.
RaceExecute(t) ==
    /\ submit_calls[t].pc = "exec"
    /\ LET call == submit_calls[t]
           key == Unwrap(call.level)
           queue == IF key \in DOMAIN asks THEN asks[key].orders ELSE <<>>
           a == Head(call.allocations)
           maker_order == orders[a.order_id]
           incoming == orders[call.order]
           trade_quantity == AllocatedQuantity(a.qty, maker_order.remaining_quantity)
           filled == /\ trade_quantity > 0
                     /\ try_fill_ok(maker_order, trade_quantity)
                     /\ try_fill_ok(incoming, trade_quantity)
           maker1 == IF filled THEN try_fill(maker_order, trade_quantity) ELSE maker_order
           taker1 == IF filled THEN try_fill(incoming, trade_quantity) ELSE incoming
           rest == SubSeq(queue, 2, Len(queue))
           next == [call EXCEPT !.allocations = Tail(call.allocations)]
       IN IF call.allocations = <<>>
          THEN /\ submit_calls' = [submit_calls EXCEPT ![t].pc = "sweep"]
               /\ UNCHANGED <<orders, asks, trades>>
          ELSE IF a.qty <= 0 \/ queue = <<>>
          THEN /\ submit_calls' = [submit_calls EXCEPT ![t] = next]
               /\ UNCHANGED <<orders, asks, trades>>
          ELSE IF Head(queue) # a.order_id
          THEN \* pop, order.id != order_id, push: the search goes on
               /\ asks' = [asks EXCEPT ![key].orders = Append(rest, Head(queue))]
               /\ UNCHANGED <<orders, trades, submit_calls>>
          ELSE /\ orders' = [orders EXCEPT ![a.order_id] = maker1, ![call.order] = taker1]
               /\ asks' = [asks EXCEPT ![key] =
                    [(IF filled THEN subtract_quantity(asks[key], trade_quantity)
                      ELSE asks[key])
                     EXCEPT !.orders = IF filled /\ maker1.remaining_quantity > 0
                                       THEN Append(rest, a.order_id) ELSE rest]]
               /\ trades' = IF filled
                            THEN Append(trades, NewTrade(a.order_id, call.order,
                                            TradePrice(maker_order), trade_quantity))
                            ELSE trades
               /\ submit_calls' = [submit_calls EXCEPT ![t] =
                    IF taker1.remaining_quantity = 0
                    THEN [next EXCEPT !.pc = "sweep"] ELSE next]
    /\ UNCHANGED <<algorithm, args, ret, bids, order_index, sequence_counter, pc, op, taker,
                   best_level, allocations, remaining_to_fill, events, result,
                   filled_before, fill_calls, detached_levels>>

\* "Clean up empty levels" and "Prevent infinite loop"
RaceSweep(t) ==
    /\ submit_calls[t].pc = "sweep"
    /\ LET call == submit_calls[t]
           key == Unwrap(call.level)
           is_empty == key \notin DOMAIN asks \/ asks[key].orders = <<>>
       IN /\ asks' = IF is_empty THEN remove_empty_levels(asks) ELSE asks
          /\ submit_calls' = [submit_calls EXCEPT ![t].pc =
                IF orders[call.order].remaining_quantity = call.remaining_to_fill
                THEN "finish" ELSE "loop"]
    /\ UNCHANGED <<algorithm, args, ret, orders, bids, order_index, sequence_counter, pc,
                   op, taker, best_level, allocations, remaining_to_fill, trades, events,
                   result, filled_before, fill_calls, detached_levels>>

\* submit_order after match_order: a remainder rests (add_to_book); the call
\* returns
RaceFinish(t) ==
    /\ submit_calls[t].pc = "finish"
    /\ LET id == submit_calls[t].order
       IN IF orders[id].remaining_quantity > 0
          THEN /\ bids' = SideAddOrder(bids, id, orders[id])
               /\ order_index' = order_index \cup {id}
          ELSE UNCHANGED <<bids, order_index>>
    /\ submit_calls' = [submit_calls EXCEPT ![t].pc = "returned"]
    /\ UNCHANGED <<algorithm, args, ret, orders, asks, sequence_counter, pc, op, taker,
                   best_level, allocations, remaining_to_fill, trades, events, result,
                   filled_before, fill_calls, detached_levels>>

\* the steps of the submit_order call of thread t
RaceStep(t) == RaceAllocate(t) \/ RaceExecute(t) \/ RaceSweep(t) \/ RaceFinish(t)

NextRace == \E t \in SubmitCallIds : RaceSubmit(t) \/ RaceStep(t)

\* every thread that is inside a call keeps being scheduled, and a search
\* that meets its order at the head of the queue again and again takes it
SpecRace ==
    /\ InitRace
    /\ [][NextRace]_vars
    /\ \A t \in SubmitCallIds :
          /\ WF_vars(RaceStep(t))
          /\ SF_vars(RaceExecute(t) /\ submit_calls'[t] # submit_calls[t])

\* C34: every submit_order call terminates also when other submit_order calls
\* run concurrently on the same engine, under fair scheduling: a thread that
\* has entered submit_order eventually returns from it.
C34_SubmitTerminates ==
    \A t \in SubmitCallIds :
        (submit_calls[t].pc \notin {"idle", "returned"}) ~> (submit_calls[t].pc = "returned")

\* C35: with no concurrent operation match_order terminates: the search of
\* a level's queue never spins, every outer iteration that enters the pop
\* loop of PriceTime trades a positive quantity at its first pop, and an
\* iteration of an allocation policy that returns to the loop head has
\* consumed a positive amount of the taker's quantity
C35_IterationProgress ==
    [][/\ pc' # "spin"
       /\ (pc = "match" /\ pc' = "pop") =>
             LET t == orders[taker]
                 level == OppositeLevels(t.side)[Unwrap(best_level')]
             IN /\ level.orders # <<>>
                /\ LET maker_order == orders[Head(level.orders)]
                       trade_quantity == PriceTimeQuantity(t.remaining_quantity,
                                             maker_order.remaining_quantity)
                   IN /\ trade_quantity > 0
                      /\ try_fill_ok(maker_order, trade_quantity)
                      /\ try_fill_ok(t, trade_quantity)
       /\ (pc = "sweep" /\ pc' = "match") =>
             /\ orders[taker].filled_quantity > 0
             /\ algorithm.name # "PriceTime" =>
                   orders[taker].remaining_quantity < remaining_to_fill
      ]_vars

\* the outer loop is back at its head after an iteration that traded
C35_Witness ==
    /\ pc = "match"
    /\ orders[taker].filled_quantity > 0
    /\ orders[taker].remaining_quantity > 0

\* C36: a try_cancel call made by cancel_order for a resting order returns
\* false (cancel_order returns None) only if the order is in a terminal
\* state at that moment
C36_CancelFailsOnlyTerminal ==
    [][\A c \in FillCallIds :
          (/\ fill_calls[c].pc \in {"cload", "ccas"}
           /\ fill_calls'[c].pc = "done"
           /\ fill_calls'[c].ret = "false")
          => orders'[1].state \in TerminalStates
      ]_vars

\* C37: once every submit_order call has returned, no Buy and Sell
\* GoodTillCancel limit orders with crossing prices are both resting in the
\* book unfilled
C37_NotLeftCrossed ==
    InSubmit = {} =>
        \A i, j \in DOMAIN orders :
            ~(/\ orders[i].side = "Buy"
              /\ orders[j].side = "Sell"
              /\ orders[i].order_type = "Limit"
              /\ orders[j].order_type = "Limit"
              /\ orders[i].time_in_force = "GoodTillCancel"
              /\ orders[j].time_in_force = "GoodTillCancel"
              /\ ~(Unwrap(orders[i].price) < Unwrap(orders[j].price))
              /\ orders[i].filled_quantity = 0
              /\ orders[j].filled_quantity = 0
              /\ i \in RestingIds(bids)
              /\ j \in RestingIds(asks))

\* C38: orders are enqueued in arrival order (ascending id) and a match step
\* never reorders the orders that stay in a level, so between operations every
\* level's queue is in arrival order
C38_QueueOrderKept ==
    pc = "idle" =>
        \A side \in Sides :
            \A k \in DOMAIN Ladder(side) :
                LET queue == Ladder(side)[k].orders
                IN \A a, b \in 1..Len(queue) : a < b => queue[a] < queue[b]

\* C39: whenever no operation is in flight, every order that is enqueued in a
\* price level and whose state is Accepted or PartiallyFilled has an entry in
\* the cancel index
C39_EnqueuedLiveIndexed ==
    pc = "idle" =>
        \A side \in Sides :
            \A i \in RestingIds(Ladder(side)) :
                orders[i].state \in {"Accepted", "PartiallyFilled"} => i \in order_index

\* C40: when cancel_order(id) has returned the OrderCancelled event, the
\* snapshot either has no entry for the order's price level, or the entry's
\* quantity is the sum of the remaining quantities of the level's orders that
\* are not cancelled, of which there is at least one
C40_SnapshotExcludesCancelled ==
    (pc = "return" /\ op # <<>> /\ op[1] = "cancel" /\ result = "Some") =>
        LET o == orders[op[2]]
            levels == Ladder(o.side)
            snapshot == get_snapshot(MaxPrice)
            entries == IF o.side = "Buy" THEN snapshot.bids ELSE snapshot.asks
        IN \A e \in 1..Len(entries) :
              entries[e][1] = Unwrap(o.price) =>
                 \A k \in DOMAIN levels :
                    levels[k].price = entries[e][1] =>
                       LET live == SelectSeq(levels[k].orders,
                                       LAMBDA i : orders[i].state # "Cancelled")
                       IN /\ live # <<>>
                          /\ entries[e][2] = SumRemaining(orders, live)
====
